---- MODULE Spec2Model ----
(***************************************************************************)
(* Model of the kernel core of neil-web (src/code/sys): the thread         *)
(* scheduler with condition variables and reentrant locks (thread.c), the  *)
(* I/O endpoint reference counting (io.c, ktfs.c), the pipe (io.c), the    *)
(* block cache (cache.c), the VirtIO block driver (dev/vioblk.c) and the   *)
(* file system (ktfs.c), and the page allocator and memory spaces          *)
(* (memory.c).                                                             *)
(*                                                                         *)
(* Threads are modelled by a stack of frames per thread; a frame is a      *)
(* position in one of the kernel functions.  A step of the model is the    *)
(* code the running thread executes up to the next point at which a timer  *)
(* interrupt can be taken: a step never spans a point where interrupts are *)
(* enabled, and a section run with interrupts disabled is never split      *)
(* across a point where another thread could observe it.                   *)
(***************************************************************************)
EXTENDS Integers, Sequences, FiniteSets, TLC

\* ---------------------------------------------------------------- bounds
NWorkers == 2      \* worker threads spawned by main
NIncr == 1         \* increments of the shared counter per worker
MaxPreempt == 2    \* timer interrupts that preempt the running thread
PAGE_SIZE == 2     \* bytes of the pipe ring (4096 in the kernel)
MaxData == 4       \* bytes the writer sends
MaxChunk == 3      \* largest len of a write and bufsz of a read
CACHE_BLOCK_AMMOUNT == 2   \* slots of the cache (64 in the kernel)
NBlocks == 3       \* blocks of the backing store
MaxPins == 2       \* buffers a thread holds at once
VIOBLK_BLKSZ == 2  \* bytes of a device block (512 in the kernel)
VIOBLK_CAPACITY == 2   \* blocks of the device
MaxBufsz == 4      \* largest bufsz and len of a device transfer
KTFS_BLKSZ == 2    \* cells of a file system block (512 bytes in the kernel)
KTFS_NUM_DIRECT_DATA_BLOCKS == 2   \* direct block numbers of an inode
INODES_PER_BLK == 4    \* inodes of the inode block (16 in the kernel)
BITMAP_BYTES == 2  \* bytes of the bitmap block that the device backs
MaxEnd == 5        \* largest file size asked for
MaxFsOps == 5      \* file system calls made
MaxDataOps == 4    \* of which a set-end, read, write or mount is one
MaxReq == 2        \* requests published before the last call is made
MaxHold == 2       \* times a worker acquires the lock it exits with
NPages == 7        \* page frames of the pool of free pages
PTE_CNT == 2       \* entries of a page table (512 in the kernel)
MaxCnt == 2        \* largest cnt asked of alloc_phys_pages
MaxAllocs == 2     \* calls of alloc_phys_pages by the kernel
MaxFaults == 2     \* page faults handled
MaxVal == 1        \* largest value stored in a page
MaxStores == 2     \* stores of user mode
MaxUnmaps == 2     \* calls of unmap_and_free_range
MaxNow == 5        \* largest value of the time counter
UINT64_MAX == 7    \* largest wake time (2^64 - 1 in the kernel)
INTERRUPT_TICKS == 2  \* period of the preemption alarm (20 ms in the kernel)
PROCESS_IOMAX == 3  \* slots of the I/O table of a process
MaxSysRef == 3     \* largest reference count of an endpoint
LruSlots == 4      \* slots of the cache used by one thread (64 in the kernel)
LruBlocks == 5     \* blocks that thread asks for
MaxLruGets == 7    \* calls of cache_get_block by that thread

\* ------------------------------------------------------------- constants
NTHR == NWorkers + 2          \* size of thrtab (16 in the source)
MAIN_TID == 0
IDLE_TID == NTHR - 1
NULL == 0 - 1                 \* the null thread pointer

Tids == 0 .. (NTHR - 1)
Workers == 1 .. NWorkers

THREAD_UNINITIALIZED == "UNINITIALIZED"
THREAD_WAITING == "WAITING"
THREAD_RUNNING == "RUNNING"
THREAD_READY == "READY"
THREAD_EXITED == "EXITED"

\* the locks of the model; lock l's released condition is named l
Locks == {"lk"}
\* the conditions: every lock's released condition and main_thread.child_exit
\* (the parent of every worker is main)
Conds == Locks \cup {"child_exit"}

VARIABLES
    cur,          \* TP: the thread whose context the hart executes
    state,        \* thrtab[t]->state
    thrtab,       \* thrtab[t] != NULL
    ready_list,   \* the ready-to-run list, head first
    wait_list,    \* cond->wait_list for each condition, head first
    lock_owner,   \* lock->owner (NULL or a thread)
    lock_count,   \* lock->count
    lock_list,    \* thr->lock_list, as the sequence of locks held
    ie,           \* sstatus.SIE: interrupts enabled
    stk,          \* call stack of each thread, top frame first
    counter,      \* the shared counter of the lock test
    tmp,          \* the register a worker loads the counter into
    iter,         \* increments a worker has completed
    preempts,     \* timer preemptions taken so far
    halt,         \* "run", "success" (halt_success) or "panic"
    w_hold        \* k < 0: a worker acquires the lock -k times in a row and
                  \* then releases it -k times;
                  \* 0: a worker releases what it acquires; k > 0: it
                  \* acquires the lock k times and exits holding it

\* I/O endpoints (io.c) and the open-file table of the file system (ktfs.c)
VARIABLES
    io_live,          \* the endpoint object exists (initialised, not freed)
    io_refcnt,        \* io->refcnt
    io_held,          \* references the callers hold (descriptors, creators)
    n_init1,          \* history: 1 if the endpoint was set up by ioinit1
    n_addref,         \* history: ioaddref calls on the endpoint
    n_ioclose,        \* history: ioclose calls on the endpoint
    n_closeop,        \* history: invocations of intf->close on the endpoint
    close_nonzero,    \* history: intf->close ran while refcnt was not 0
    open_file_names,  \* filesetup.open_file_names[], as <<name, fio>> records
    cur_file_count,   \* filesetup.cur_file_count
    name_pos,         \* fio->name_pos of each open file endpoint
    dir,              \* names present in the root directory
    pipe_freed,       \* the pipe's buffer page was freed
    io_halt,          \* "run", "panic" (failed assert) or "ub"
    io_group          \* the family of endpoints this run exercises

\* ---- pipe (io.c)
VARIABLES
    p_pc,             \* position of the reader and of the writer
    p_wait,           \* the condition a thread waits on, or "none"
    headpos, tailpos, \* struct pipe
    data,
    pbuf,             \* the ring, PAGE_SIZE bytes
    p_lock_owner,     \* p->lock.owner
    readio_refcnt, writeio_refcnt,
    w_len, bytes_written, tpos,      \* locals of pipe_write / rbuf_putc
    w_off,            \* bytes the writer has sent in earlier calls
    r_bufsz, r_i, hpos, r_c,         \* locals of pipe_read / rbuf_getc
    w_ret, r_ret,     \* last return values
    accepted,         \* bytes put in the ring, in order
    received,         \* bytes stored in the reader's buffers, in order
    r_eof             \* a read has returned 0

\* ---- block cache (cache.c)
VARIABLES
    block_id,         \* cache_blocks[i].block_id, -1 for a slot never filled
    assign_num,       \* cache_blocks[i].assign_num
    slot_data,        \* cache_blocks[i].data, one value per block
    cache_lock,       \* cache_lock: owner and count
    lock_owner_slot,  \* cache->lock_owner
    disk,             \* the backing endpoint, one value per block
    c_pc, c_wait,     \* position of each thread, and whether it waits
    c_blk, c_slot,    \* pos / CACHE_BLKSZ and i of a cache_get_block
    c_rel,            \* the buffer a cache_release_block is releasing
    pinned,           \* the buffers each thread holds: slot, block asked
    last_write,       \* the last iowriteat call made, if any
    last_release      \* the last release: was it dirty, did it write

\* ---- virtio block driver (dev/vioblk.c)
VARIABLES
    vb_header,        \* vioblk->header: type and sector
    vb_dwrite,        \* VIRTQ_DESC_F_WRITE of vioblk->vq.desc[2]
    vb_data,          \* vioblk->data, one block of bytes
    avail_idx,        \* vioblk->vq.avail.idx
    used_idx,         \* vioblk->vq.used.idx
    vioblk_lock,      \* owner of vioblk->vioblk_lock
    vb_disk,          \* the bytes of the device
    vb_pc, vb_woken,  \* position of each caller; woken since it waited
    vb_op, vb_pos,    \* the call in progress: read or write, pos
    vb_bufsz, vb_i,   \* its bufsz and loop index i
    vb_buf,           \* the buffer of the call in progress
    vb_ret,           \* the value returned by the last call to return
    vb_pub,           \* the request as it was last published
    vb_single,        \* one thread alone uses the device in this run
    vb_lastw,         \* then: the last write to return, and
    vb_lastr          \* the last read to return after it

vioblkVars == <<vb_header, vb_dwrite, vb_data, avail_idx, used_idx,
                vioblk_lock, vb_disk, vb_pc, vb_woken, vb_op, vb_pos,
                vb_bufsz, vb_i, vb_buf, vb_ret, vb_pub, vb_single,
                vb_lastw, vb_lastr>>

\* ---- file system (ktfs.c): the disk image and filesetup
VARIABLES
    kt_root,          \* super_blk.root_directory_inode, on disk
    kt_bitmap,        \* the bits set in the bitmap block
    kt_inodes,        \* the inode block: inode number -> inode, on disk
    kt_blocks,        \* the data blocks, by data block number: cells
    root_dir_inode,   \* filesetup.root_dir_inode
    inode_bitmap,     \* filesetup.inode_bitmap
    inodecount,       \* filesetup.inodecount
    kt_names,         \* filesetup.open_file_names[i].name
    kt_count,         \* filesetup.cur_file_count
    kt_file,          \* per name: the struct ktfs_file of its last open
    kt_ops,           \* operations made so far
    kt_last           \* the operation that completed last, and its result

ktfsVars == <<kt_root, kt_bitmap, kt_inodes, kt_blocks, root_dir_inode,
              inode_bitmap, inodecount, kt_names, kt_count, kt_file,
              kt_ops, kt_last>>

\* ---- seekable adapter (io.c) over the block device
VARIABLES
    sio_pos,          \* sio->pos
    sio_end,          \* sio->end
    sk_disk,          \* the bytes of the backing device
    sk_op,            \* the call made last on the adapter
    sk_req,           \* the size or position it asked for
    sk_ret,           \* what it returned
    sk_moved          \* the bytes it moved to or from the device

seekVars == <<sio_pos, sio_end, sk_disk, sk_op, sk_req, sk_ret, sk_moved>>

\* ---- system calls (syscall.c) on the I/O table of the current process
VARIABLES
    iotab,            \* current_process()->iotab: slot -> endpoint or NoIo
    sys_refcnt,       \* per endpoint: io->refcnt
    sys_halt,         \* "run", or how the kernel stopped
    sys_op,           \* the system call made last
    sys_fd,           \* its descriptor (oldfd of iodup)
    sys_new,          \* newfd of iodup
    sys_ret           \* what it returned

sysVars == <<iotab, sys_refcnt, sys_halt, sys_op, sys_fd, sys_new, sys_ret>>

\* ---- the cache used by one thread (cache.c): recency bookkeeping
VARIABLES
    lru_id,           \* per slot: block_id, -1 before the first fill
    lru_rank,         \* per slot: assign_num
    lru_stamp,        \* per slot: when it was released last, 0 if never
    lru_clock,        \* releases so far
    lru_held,         \* the slot of the buffer the thread holds, or -1
    lru_victim,       \* the slot the last cache_get_block evicted, or -1
    lru_gets,         \* calls of cache_get_block so far
    lru_rderr,        \* ioreadat failed in the last cache_get_block
    lru_ret,          \* what the last cache_get_block or ktfs_readat returned
    t_now,            \* the time counter read by rdtime()
    twake,            \* twake of every alarm
    sleep_list,       \* the alarms of the sleep list from its head
    stcmp,            \* the timer compare register
    stie,             \* the timer interrupt is enabled in sie
    timer_initialized,
    al_state,         \* where the thread of each sleeper is in sleep_us
    t_op              \* the timer function that ran last

lruVars == <<lru_id, lru_rank, lru_stamp, lru_clock, lru_held, lru_victim,
             lru_gets, lru_rderr, lru_ret>>

\* ---- memory (memory.c)
VARIABLES
    free_chunk_list,  \* the chunks of free pages, in list order
    pt,               \* per frame: the page table it holds
    pg,               \* per frame: the value of the bytes it holds
    satp,             \* the root page table of the active space
    clone_mtag,       \* the space clone_active_mspace returned
    mem_held,         \* the allocations the kernel holds
    mem_fault,        \* "halt" or "wild" once the allocator used NULL
    al_ret,           \* the last return of alloc_phys_pages
    pf_ret,           \* the last return of handle_umode_page_fault
    n_faults,         \* page faults handled so far
    n_allocs,         \* calls of alloc_phys_pages so far
    al_cnt,           \* the cnt of the last call of alloc_phys_pages
    n_stores,         \* stores of user mode so far
    cloned,           \* clone_active_mspace was called
    n_unmaps,         \* calls of unmap_and_free_range so far
    um_vp,            \* the first page of the last unmap_and_free_range
    um_cnt,           \* the pages of its range
    pf_vma            \* the page of the last fault, NoVma outside user memory

memVars == <<free_chunk_list, pt, pg, satp, clone_mtag, mem_held, mem_fault,
             al_ret, pf_ret, n_faults, n_allocs, al_cnt, n_stores,
             cloned, n_unmaps, um_vp, um_cnt, pf_vma>>
umVars == <<n_unmaps, um_vp, um_cnt>>

schedVars == <<cur, state, thrtab, ready_list, wait_list, lock_owner,
               lock_count, lock_list, ie, stk, counter, tmp, iter, preempts,
               halt, w_hold>>
ioVars == <<io_live, io_refcnt, io_held, n_init1, n_addref, n_ioclose,
            n_closeop, close_nonzero, open_file_names, cur_file_count,
            name_pos, dir, pipe_freed, io_halt, io_group>>
pipeVars == <<p_pc, p_wait, headpos, tailpos, data, pbuf, p_lock_owner,
              readio_refcnt, writeio_refcnt, w_len, bytes_written, tpos,
              w_off, r_bufsz, r_i, hpos, r_c, w_ret, r_ret, accepted,
              received, r_eof>>
cacheVars == <<block_id, assign_num, slot_data, cache_lock, lock_owner_slot,
               disk, c_pc, c_wait, c_blk, c_slot, c_rel, pinned, last_write,
               last_release>>
timerVars == <<t_now, twake, sleep_list, stcmp, stie, timer_initialized,
               al_state, t_op>>
nonSchedVars == <<ioVars, pipeVars, cacheVars, vioblkVars, ktfsVars, memVars,
                 seekVars, sysVars, lruVars, timerVars>>
nonIoVars == <<schedVars, pipeVars, cacheVars, vioblkVars, ktfsVars, memVars,
                 seekVars, sysVars, lruVars, timerVars>>
nonPipeVars == <<schedVars, ioVars, cacheVars, vioblkVars, ktfsVars, memVars,
                 seekVars, sysVars, lruVars, timerVars>>
nonCacheVars == <<schedVars, ioVars, pipeVars, vioblkVars, ktfsVars, memVars,
                 seekVars, sysVars, lruVars, timerVars>>
nonVioblkVars == <<schedVars, ioVars, pipeVars, cacheVars, ktfsVars, memVars,
                 seekVars, sysVars, lruVars, timerVars>>
nonKtfsVars == <<schedVars, ioVars, pipeVars, cacheVars, vioblkVars,
                 memVars, seekVars, sysVars, lruVars, timerVars>>
nonMemVars == <<schedVars, ioVars, pipeVars, cacheVars, vioblkVars, ktfsVars,
                seekVars, sysVars, lruVars, timerVars>>
nonSeekVars == <<schedVars, ioVars, pipeVars, cacheVars, vioblkVars, ktfsVars,
                 memVars, sysVars, lruVars, timerVars>>
nonSysVars == <<schedVars, ioVars, pipeVars, cacheVars, vioblkVars, ktfsVars,
                memVars, seekVars, lruVars, timerVars>>
nonLruVars == <<schedVars, ioVars, pipeVars, cacheVars, vioblkVars, ktfsVars,
                memVars, seekVars, sysVars, timerVars>>
nonTimerVars == <<schedVars, ioVars, pipeVars, cacheVars, vioblkVars,
                  ktfsVars, memVars, seekVars, sysVars, lruVars>>
vars == <<schedVars, ioVars, pipeVars, cacheVars, vioblkVars, ktfsVars,
          memVars, seekVars, sysVars, lruVars, timerVars>>

\* ------------------------------------------------------- frame helpers
Frame(pc, arg, loc) == [pc |-> pc, arg |-> arg, loc |-> loc]
Top(t) == Head(stk[t])
At(t, pc) == halt = "run" /\ cur = t /\ stk[t] # <<>> /\ Top(t).pc = pc
\* the running thread executes the code at pc; the other subsystems idle
Step(pc) == At(cur, pc) /\ UNCHANGED nonSchedVars /\ UNCHANGED w_hold
\* the stack of t after its top frame moves to pc
Goto(t, pc) == <<[Top(t) EXCEPT !.pc = pc]>> \o Tail(stk[t])
GotoLoc(t, pc, loc) == <<[Top(t) EXCEPT !.pc = pc, !.loc = loc]>> \o Tail(stk[t])
\* the stack of t after it calls a function whose first frame is f and
\* whose return continues the caller at ret
Call(t, ret, f) == <<f>> \o Goto(t, ret)
Return(t) == Tail(stk[t])

\* ------------------------------------------------------- thread lists
\* an insertion at the head of the list
tlinsert_AtHead(list, thr) == <<thr>> \o list
\* tlinsert: append at the tail
tlinsert(list, thr) == Append(list, thr)
\* tlempty
tlempty(list) == list = <<>>

\* ------------------------------------------------------- lock lists
llinsert(list, lock) == Append(list, lock)
llremove(list, lock) ==
    IF \E i \in 1 .. Len(list) : list[i] = lock
    THEN LET i == CHOOSE j \in 1 .. Len(list) :
                      list[j] = lock /\ \A k \in 1 .. (j - 1) : list[k] # lock
         IN SubSeq(list, 1, i - 1) \o SubSeq(list, i + 1, Len(list))
    ELSE list

\* the thread states and the ready list after condition_broadcast on a wait
\* list wl, run with interrupts disabled: every waiter becomes READY and
\* moves, in order, to the tail of the ready list
BroadcastState(st, wl) ==
    [t \in Tids |-> IF \E i \in 1 .. Len(wl) : wl[i] = t
                    THEN THREAD_READY ELSE st[t]]
BroadcastReady(rl, wl) == rl \o wl

\* ------------------------------------------------- reentrant lock, whole
\* lock_release(l) called by thread t, on the record S of the scheduler
\* state; used where the code releases with interrupts disabled (llclear)
LockReleaseIn(S, t, l) ==
    IF S.count[l] = 0
    THEN [S EXCEPT !.ll[t] = llremove(@, l),
                   !.owner[l] = NULL,
                   !.st = BroadcastState(S.st, S.wl[l]),
                   !.rl = BroadcastReady(S.rl, S.wl[l]),
                   !.wl[l] = <<>>]
    ELSE [S EXCEPT !.count[l] = @ - 1]

\* the loop  for (i = 0; i <= head->count; i++) lock_release(head)  of
\* llclear: head->count is read again at every iteration
RECURSIVE ReleaseLoop(_, _, _, _)
ReleaseLoop(S, t, l, i) ==
    IF i <= S.count[l] THEN ReleaseLoop(LockReleaseIn(S, t, l), t, l, i + 1)
    ELSE S

\* llclear(old) executed by thread t over the locks old still holds
RECURSIVE llclear(_, _, _)
llclear(S, t, locks) ==
    IF locks = <<>> THEN S
    ELSE llclear(ReleaseLoop(S, t, Head(locks), 0), t, Tail(locks))

\* --------------------------------------------- running_thread_suspend
\* lines 622-632, run with interrupts disabled: the running thread goes to
\* the tail of the ready list if it is RUNNING, the head of the ready list
\* becomes RUNNING, and interrupts are enabled for the switch
SuspendReady == IF state[cur] = THREAD_RUNNING THEN tlinsert(ready_list, cur)
                ELSE ready_list
\* the state change without the test of line 623
SuspendState_NoTest == [state EXCEPT ![cur] = THREAD_READY]
SuspendState == IF state[cur] = THREAD_RUNNING
                THEN [state EXCEPT ![cur] = THREAD_READY] ELSE state
\* tlremove: the head of the list
tlremove(list) == Head(list)

rts_pick ==
    /\ Step("rts_pick")
    /\ IF tlempty(SuspendReady)
       THEN /\ halt' = "panic"        \* next_thread == NULL is dereferenced
            /\ UNCHANGED <<state, ready_list, ie, stk>>
       ELSE LET next == tlremove(SuspendReady) IN
            /\ state' = [SuspendState EXCEPT ![next] = THREAD_RUNNING]
            /\ ready_list' = Tail(SuspendReady)
            /\ ie' = TRUE
            /\ stk' = [stk EXCEPT ![cur] = GotoLoc(cur, "rts_switch", next)]
            /\ halt' = halt
    /\ UNCHANGED <<cur, thrtab, wait_list, lock_owner, lock_count, lock_list,
                   counter, tmp, iter, preempts>>

\* _thread_swtch(next_thread): the hart continues in next_thread.  A thread
\* that was switched out continues after its own _thread_swtch call, which
\* returns the thread that was switched from; a new thread starts at its
\* entry function.
SwitchStacks(t, next) ==
    LET s1 == [stk EXCEPT ![t] = GotoLoc(t, "rts_resume", NULL)]
    IN IF s1[next] # <<>> /\ Head(s1[next]).pc = "rts_resume"
       THEN [s1 EXCEPT ![next] = <<[Head(s1[next]) EXCEPT !.loc = t]>>
                                    \o Tail(s1[next])]
       ELSE s1

rts_switch ==
    /\ Step("rts_switch")
    /\ cur' = Top(cur).loc
    /\ stk' = SwitchStacks(cur, Top(cur).loc)
    \* a thread whose context thread_spawn has not filled in yet (lines
    \* 284-292) has ra = sp = 0 from kcalloc: the switch jumps to address 0
    /\ halt' = IF stk[Top(cur).loc] = <<>> THEN "panic" ELSE halt
    /\ UNCHANGED <<state, thrtab, ready_list, wait_list, lock_owner,
                   lock_count, lock_list, ie, counter, tmp, iter, preempts>>

\* lines 639-645: the resumed thread drains the locks of the thread it was
\* switched from if that thread has exited, then returns
rts_resume ==
    /\ Step("rts_resume")
    /\ LET old == Top(cur).loc
           S0 == [owner |-> lock_owner, count |-> lock_count,
                  ll |-> lock_list, st |-> state, rl |-> ready_list,
                  wl |-> wait_list]
           S1 == IF state[old] = THREAD_EXITED
                 THEN [llclear(S0, cur, lock_list[old]) EXCEPT !.ll[old] = <<>>]
                 ELSE S0
       IN /\ lock_owner' = S1.owner
          /\ lock_count' = S1.count
          /\ lock_list' = S1.ll
          /\ state' = S1.st
          /\ ready_list' = S1.rl
          /\ wait_list' = S1.wl
    /\ stk' = [stk EXCEPT ![cur] = Return(cur)]
    /\ UNCHANGED <<cur, thrtab, ie, counter, tmp, iter, preempts, halt>>

\* ------------------------------------------------------ condition_wait
\* line 412: set_thread_state(TP, THREAD_WAITING), interrupts as the caller
\* left them
cw_state ==
    /\ Step("cw_state")
    /\ IF state[cur] = THREAD_RUNNING
       THEN /\ state' = [state EXCEPT ![cur] = THREAD_WAITING]
            /\ stk' = [stk EXCEPT ![cur] = Goto(cur, "cw_insert")]
            /\ halt' = halt
       ELSE /\ halt' = "panic"        \* assert(TP->state == THREAD_RUNNING)
            /\ UNCHANGED <<state, stk>>
    /\ UNCHANGED <<cur, thrtab, ready_list, wait_list, lock_owner, lock_count,
                   lock_list, ie, counter, tmp, iter, preempts>>

\* lines 416-418: tlinsert(&cond->wait_list, TP) with interrupts disabled
cw_insert ==
    /\ Step("cw_insert")
    /\ wait_list' = [wait_list EXCEPT ![Top(cur).arg] = tlinsert(@, cur)]
    /\ stk' = [stk EXCEPT ![cur] = Goto(cur, "cw_suspend")]
    /\ UNCHANGED <<cur, state, thrtab, ready_list, lock_owner, lock_count,
                   lock_list, ie, counter, tmp, iter, preempts, halt>>

\* line 420: the call of running_thread_suspend()
cw_suspend ==
    /\ Step("cw_suspend")
    /\ stk' = [stk EXCEPT ![cur] = <<Frame("rts_pick", 0, NULL)>> \o Return(cur)]
    /\ UNCHANGED <<cur, state, thrtab, ready_list, wait_list, lock_owner,
                   lock_count, lock_list, ie, counter, tmp, iter, preempts,
                   halt>>

\* --------------------------------------------------------- lock_acquire
\* lines 455-465: the owner test
la_test ==
    /\ Step("la_test")
    /\ LET l == Top(cur).arg IN
       IF lock_owner[l] = cur
       THEN /\ lock_count' = [lock_count EXCEPT ![l] = @ + 1]
            /\ stk' = [stk EXCEPT ![cur] = Return(cur)]
       ELSE IF lock_owner[l] # NULL
       THEN /\ stk' = [stk EXCEPT ![cur] =
                          Call(cur, "la_test", Frame("cw_state", l, 0))]
            /\ UNCHANGED lock_count
       ELSE /\ stk' = [stk EXCEPT ![cur] = Goto(cur, "la_own")]
            /\ UNCHANGED lock_count
    /\ UNCHANGED <<cur, state, thrtab, ready_list, wait_list, lock_owner,
                   lock_list, ie, counter, tmp, iter, preempts, halt>>

\* line 466: lock->owner = TP
la_own ==
    /\ Step("la_own")
    /\ lock_owner' = [lock_owner EXCEPT ![Top(cur).arg] = cur]
    /\ stk' = [stk EXCEPT ![cur] = Goto(cur, "la_link")]
    /\ UNCHANGED <<cur, state, thrtab, ready_list, wait_list, lock_count,
                   lock_list, ie, counter, tmp, iter, preempts, halt>>

\* lines 467-469: llinsert(TP, lock) with interrupts disabled
la_link ==
    /\ Step("la_link")
    /\ lock_list' = [lock_list EXCEPT ![cur] = llinsert(@, Top(cur).arg)]
    /\ stk' = [stk EXCEPT ![cur] = Return(cur)]
    /\ UNCHANGED <<cur, state, thrtab, ready_list, wait_list, lock_owner,
                   lock_count, ie, counter, tmp, iter, preempts, halt>>

\* --------------------------------------------------------- lock_release
\* lines 481-486 and 492: the count test; llremove with interrupts disabled
lr_test ==
    /\ Step("lr_test")
    /\ LET l == Top(cur).arg IN
       IF lock_count[l] = 0
       THEN /\ lock_list' = [lock_list EXCEPT ![cur] = llremove(@, l)]
            /\ stk' = [stk EXCEPT ![cur] = Goto(cur, "lr_clear")]
            /\ UNCHANGED lock_count
       ELSE /\ lock_count' = [lock_count EXCEPT ![l] = @ - 1]
            /\ stk' = [stk EXCEPT ![cur] = Return(cur)]
            /\ UNCHANGED lock_list
    /\ UNCHANGED <<cur, state, thrtab, ready_list, wait_list, lock_owner,
                   ie, counter, tmp, iter, preempts, halt>>

\* line 487: lock->owner = NULL
lr_clear ==
    /\ Step("lr_clear")
    /\ lock_owner' = [lock_owner EXCEPT ![Top(cur).arg] = NULL]
    /\ stk' = [stk EXCEPT ![cur] = Goto(cur, "lr_bcast")]
    /\ UNCHANGED <<cur, state, thrtab, ready_list, wait_list, lock_count,
                   lock_list, ie, counter, tmp, iter, preempts, halt>>

\* line 488: condition_broadcast(&lock->released)
lr_bcast ==
    /\ Step("lr_bcast")
    /\ LET l == Top(cur).arg IN
       /\ state' = BroadcastState(state, wait_list[l])
       /\ ready_list' = BroadcastReady(ready_list, wait_list[l])
       /\ wait_list' = [wait_list EXCEPT ![l] = <<>>]
    /\ stk' = [stk EXCEPT ![cur] = Return(cur)]
    /\ UNCHANGED <<cur, thrtab, lock_owner, lock_count, lock_list, ie,
                   counter, tmp, iter, preempts, halt>>

\* the scheduler after thrmgr_init: main runs, idle is ready
\* main joins its workers by id, or joins any child (any = TRUE); the
\* workers acquire the lock as one of holds says
SchedStart(any, holds) ==
    /\ w_hold \in holds
    /\ cur = MAIN_TID
    /\ state = [t \in Tids |-> IF t = MAIN_TID THEN THREAD_RUNNING
                               ELSE IF t = IDLE_TID THEN THREAD_READY
                               ELSE THREAD_UNINITIALIZED]
    /\ thrtab = [t \in Tids |-> t \in {MAIN_TID, IDLE_TID}]
    /\ ready_list = <<IDLE_TID>>
    /\ wait_list = [c \in Conds |-> <<>>]
    /\ lock_owner = [l \in Locks |-> NULL]
    /\ lock_count = [l \in Locks |-> 0]
    /\ lock_list = [t \in Tids |-> <<>>]
    /\ ie = TRUE
    /\ stk = [t \in Tids |->
                IF t = MAIN_TID THEN <<Frame("m_spawn", any, 0)>>
                ELSE IF t = IDLE_TID THEN <<Frame("idle", 0, 0)>>
                ELSE <<>>]                  \* no context before thread_spawn
    /\ counter = 0
    /\ tmp = [t \in Tids |-> 0]
    /\ iter = [t \in Tids |-> 0]
    /\ preempts = 0
    /\ halt = "run"

SchedInit == SchedStart(FALSE, {0})

\* ---------------------------------------------------------- thread_spawn
\* create_thread (570-610): the first free slot above MAIN_TID
FreeSlots == {t \in 1 .. (NTHR - 1) : ~thrtab[t]}
create_thread == IF FreeSlots = {} THEN NULL
                 ELSE CHOOSE t \in FreeSlots : \A u \in FreeSlots : t <= u

\* lines 271-276: create_thread and set_thread_state(child, THREAD_READY)
ts_create ==
    /\ Step("ts_create")
    /\ LET child == create_thread IN
       IF child = NULL
       THEN /\ stk' = [stk EXCEPT ![cur] = Return(cur)]      \* -EMTHR
            /\ UNCHANGED <<thrtab, state>>
       ELSE /\ thrtab' = [thrtab EXCEPT ![child] = TRUE]
            /\ state' = [state EXCEPT ![child] = THREAD_READY]
            /\ stk' = [stk EXCEPT ![cur] = GotoLoc(cur, "ts_insert", child)]
    /\ UNCHANGED <<cur, ready_list, wait_list, lock_owner, lock_count,
                   lock_list, ie, counter, tmp, iter, preempts, halt>>

\* lines 278-280: tlinsert(&ready_list, child) with interrupts disabled
ts_insert ==
    /\ Step("ts_insert")
    /\ ready_list' = tlinsert(ready_list, Top(cur).loc)
    /\ stk' = [stk EXCEPT ![cur] = Goto(cur, "ts_ctx")]
    /\ UNCHANGED <<cur, state, thrtab, wait_list, lock_owner, lock_count,
                   lock_list, ie, counter, tmp, iter, preempts, halt>>

\* lines 284-294: the child's context (entry, thread_exit, ra, sp)
ts_ctx ==
    /\ Step("ts_ctx")
    /\ LET child == Top(cur).loc IN
       stk' = [stk EXCEPT ![cur] = Return(cur),
                          ![child] = IF stk[child] = <<>>
                                     THEN <<Frame(IF w_hold < 0 THEN "wn_acq"
                                                  ELSE "w_acq", 0, 0)>>
                                     ELSE @]
    /\ UNCHANGED <<cur, state, thrtab, ready_list, wait_list, lock_owner,
                   lock_count, lock_list, ie, counter, tmp, iter, preempts,
                   halt>>

\* ----------------------------------------------------------- thread_exit
\* lines 309-316
te_state ==
    /\ Step("te_state")
    /\ IF cur = MAIN_TID
       THEN /\ halt' = "success"
            /\ UNCHANGED <<state, stk>>
       ELSE /\ state' = [state EXCEPT ![cur] = THREAD_EXITED]
            /\ stk' = [stk EXCEPT ![cur] = Goto(cur, "te_bcast")]
            /\ halt' = halt
    /\ UNCHANGED <<cur, thrtab, ready_list, wait_list, lock_owner, lock_count,
                   lock_list, ie, counter, tmp, iter, preempts>>

\* line 317: condition_broadcast(&TP->parent->child_exit)
te_bcast ==
    /\ Step("te_bcast")
    /\ state' = BroadcastState(state, wait_list["child_exit"])
    /\ ready_list' = BroadcastReady(ready_list, wait_list["child_exit"])
    /\ wait_list' = [wait_list EXCEPT !["child_exit"] = <<>>]
    /\ stk' = [stk EXCEPT ![cur] = Goto(cur, "te_suspend")]
    /\ UNCHANGED <<cur, thrtab, lock_owner, lock_count, lock_list, ie,
                   counter, tmp, iter, preempts, halt>>

\* lines 318-319: running_thread_suspend(), then halt_failure() if it returns
te_suspend ==
    /\ Step("te_suspend")
    /\ stk' = [stk EXCEPT ![cur] =
                  Call(cur, "te_failure", Frame("rts_pick", 0, NULL))]
    /\ UNCHANGED <<cur, state, thrtab, ready_list, wait_list, lock_owner,
                   lock_count, lock_list, ie, counter, tmp, iter, preempts,
                   halt>>

\* ----------------------------------------------------------- thread_join
\* thread_join(tid) with tid != 0, lines 338-357; thread_reclaim clears the
\* slot (all children here are children of main, so nothing is re-parented)
tj_test ==
    /\ Step("tj_test")
    /\ LET tid == Top(cur).arg IN
       IF thrtab[tid] /\ state[tid] = THREAD_EXITED
       THEN /\ thrtab' = [thrtab EXCEPT ![tid] = FALSE]
            /\ stk' = [stk EXCEPT ![cur] = Return(cur)]
            /\ ie' = ie
       ELSE IF thrtab[tid]
       THEN /\ ie' = FALSE                       \* pie = disable_interrupts()
            /\ stk' = [stk EXCEPT ![cur] = GotoLoc(cur, "tj_loop", ie)]
            /\ UNCHANGED thrtab
       ELSE /\ stk' = [stk EXCEPT ![cur] = Return(cur)]     \* -EINVAL
            /\ UNCHANGED <<thrtab, ie>>
    /\ UNCHANGED <<cur, state, ready_list, wait_list, lock_owner, lock_count,
                   lock_list, counter, tmp, iter, preempts, halt>>

\* lines 348-354: the wait loop, then restore_interrupts and thread_reclaim
tj_loop ==
    /\ Step("tj_loop")
    /\ LET tid == Top(cur).arg IN
       IF state[tid] # THREAD_EXITED
       THEN /\ stk' = [stk EXCEPT ![cur] =
                          Call(cur, "tj_loop", Frame("cw_state", "child_exit", 0))]
            /\ UNCHANGED <<thrtab, ie>>
       ELSE /\ ie' = Top(cur).loc
            /\ thrtab' = [thrtab EXCEPT ![tid] = FALSE]
            /\ stk' = [stk EXCEPT ![cur] = Return(cur)]
    /\ UNCHANGED <<cur, state, ready_list, wait_list, lock_owner, lock_count,
                   lock_list, counter, tmp, iter, preempts, halt>>

\* thread_join(0), lines 358-380: the scan stops at the first slot that
\* holds a child of the caller (every thread but main, the idle thread
\* included, has main as its parent): an EXITED child is reclaimed, any
\* other is waited for in the loop of lines 368-375, which is the loop of
\* lines 346-353
Children == {i \in 1 .. (NTHR - 1) : thrtab[i]}
FirstChild == CHOOSE i \in Children : \A j \in Children : i <= j
tj_any ==
    /\ Step("tj_any")
    /\ IF Children = {}
       THEN /\ stk' = [stk EXCEPT ![cur] = Return(cur)]     \* -EINVAL
            /\ UNCHANGED <<thrtab, ie>>
       ELSE IF state[FirstChild] = THREAD_EXITED
       THEN /\ thrtab' = [thrtab EXCEPT ![FirstChild] = FALSE]
            /\ stk' = [stk EXCEPT ![cur] = Return(cur)]
            /\ ie' = ie
       ELSE /\ ie' = FALSE                       \* pie = disable_interrupts()
            /\ stk' = [stk EXCEPT ![cur] =
                          <<Frame("tj_loop", FirstChild, ie)>> \o Return(cur)]
            /\ UNCHANGED thrtab
    /\ UNCHANGED <<cur, state, ready_list, wait_list, lock_owner, lock_count,
                   lock_list, counter, tmp, iter, preempts, halt>>

\* ---------------------------------------------------------- thread_yield
\* the idle thread (805-830): it yields while the ready list is not empty
\* and otherwise sleeps in wfi until an interrupt
idle_thread_func ==
    /\ Step("idle")
    /\ ~tlempty(ready_list)
    /\ stk' = [stk EXCEPT ![cur] = Call(cur, "idle", Frame("rts_pick", 0, NULL))]
    /\ UNCHANGED <<cur, state, thrtab, ready_list, wait_list, lock_owner,
                   lock_count, lock_list, ie, counter, tmp, iter, preempts,
                   halt>>

\* ------------------------------------------------------ timer preemption
\* A timer interrupt is taken while interrupts are enabled; the trap entry
\* disables them and the handler yields the hart on behalf of the
\* interrupted thread (thread_yield -> running_thread_suspend).
Preempt ==
    /\ halt = "run"
    /\ UNCHANGED nonSchedVars
    /\ UNCHANGED w_hold
    /\ ie
    /\ preempts < MaxPreempt
    /\ stk[cur] # <<>>
    /\ preempts' = preempts + 1
    /\ ie' = FALSE
    /\ stk' = [stk EXCEPT ![cur] = <<Frame("rts_pick", 0, NULL)>> \o @]
    /\ UNCHANGED <<cur, state, thrtab, ready_list, wait_list, lock_owner,
                   lock_count, lock_list, counter, tmp, iter, halt>>

\* ------------------------------------------- the lock test (scenario 1)
\* a worker: NIncr times lock_acquire, counter++, lock_release; then its
\* entry function returns into thread_exit
w_acq ==
    /\ Step("w_acq")
    /\ stk' = [stk EXCEPT ![cur] =
                  IF iter[cur] < (IF w_hold > 0 THEN w_hold ELSE NIncr)
                  THEN Call(cur, "w_load", Frame("la_test", "lk", 0))
                  ELSE <<Frame("te_state", 0, 0)>>]
    /\ UNCHANGED <<cur, state, thrtab, ready_list, wait_list, lock_owner,
                   lock_count, lock_list, ie, counter, tmp, iter, preempts,
                   halt>>

w_load ==
    /\ Step("w_load")
    /\ tmp' = [tmp EXCEPT ![cur] = counter]
    /\ stk' = [stk EXCEPT ![cur] = Goto(cur, "w_store")]
    /\ UNCHANGED <<cur, state, thrtab, ready_list, wait_list, lock_owner,
                   lock_count, lock_list, ie, counter, iter, preempts, halt>>

w_store ==
    /\ Step("w_store")
    /\ counter' = tmp[cur] + 1
    /\ iter' = [iter EXCEPT ![cur] = @ + 1]
    /\ stk' = [stk EXCEPT ![cur] =
                  Goto(cur, IF w_hold > 0 THEN "w_acq" ELSE "w_rel")]
    /\ UNCHANGED <<cur, state, thrtab, ready_list, wait_list, lock_owner,
                   lock_count, lock_list, ie, tmp, preempts, halt>>

w_rel ==
    /\ Step("w_rel")
    /\ stk' = [stk EXCEPT ![cur] = Call(cur, "w_acq", Frame("lr_test", "lk", 0))]
    /\ UNCHANGED <<cur, state, thrtab, ready_list, wait_list, lock_owner,
                   lock_count, lock_list, ie, counter, tmp, iter, preempts,
                   halt>>

\* a worker that nests the lock: -w_hold times lock_acquire, then as many
\* times lock_release, then its entry function returns into thread_exit;
\* iter counts the calls of lock_acquire that have no lock_release yet
wn_acq ==
    /\ Step("wn_acq")
    /\ IF iter[cur] < 0 - w_hold
       THEN /\ iter' = [iter EXCEPT ![cur] = @ + 1]
            /\ stk' = [stk EXCEPT ![cur] =
                          Call(cur, "wn_acq", Frame("la_test", "lk", 0))]
       ELSE /\ stk' = [stk EXCEPT ![cur] = Goto(cur, "wn_rel")]
            /\ UNCHANGED iter
    /\ UNCHANGED <<cur, state, thrtab, ready_list, wait_list, lock_owner,
                   lock_count, lock_list, ie, counter, tmp, preempts, halt>>

wn_rel ==
    /\ Step("wn_rel")
    /\ IF iter[cur] > 0
       THEN /\ iter' = [iter EXCEPT ![cur] = @ - 1]
            /\ stk' = [stk EXCEPT ![cur] =
                          Call(cur, "wn_rel", Frame("lr_test", "lk", 0))]
       ELSE /\ stk' = [stk EXCEPT ![cur] = <<Frame("te_state", 0, 0)>>]
            /\ UNCHANGED iter
    /\ UNCHANGED <<cur, state, thrtab, ready_list, wait_list, lock_owner,
                   lock_count, lock_list, ie, counter, tmp, preempts, halt>>

\* main: spawn the workers, join each of them, then read the counter
m_spawn ==
    /\ Step("m_spawn")
    /\ LET k == Top(cur).loc IN
       stk' = [stk EXCEPT ![cur] =
                  IF k < NWorkers
                  THEN <<Frame("ts_create", 0, NULL)>>
                         \o GotoLoc(cur, "m_spawn", k + 1)
                  ELSE GotoLoc(cur, "m_join", 1)]
    /\ UNCHANGED <<cur, state, thrtab, ready_list, wait_list, lock_owner,
                   lock_count, lock_list, ie, counter, tmp, iter, preempts,
                   halt>>

m_join ==
    /\ Step("m_join")
    /\ LET j == Top(cur).loc IN
       stk' = [stk EXCEPT ![cur] =
                  IF j <= NWorkers
                  THEN <<IF Top(cur).arg THEN Frame("tj_any", 0, NULL)
                         ELSE Frame("tj_test", j, NULL)>>
                         \o GotoLoc(cur, "m_join", j + 1)
                  ELSE Goto(cur, "m_done")]
    \* after the last join the test reads the counter and main halts
    /\ halt' = IF Top(cur).loc <= NWorkers THEN halt ELSE "success"
    /\ UNCHANGED <<cur, state, thrtab, ready_list, wait_list, lock_owner,
                   lock_count, lock_list, ie, counter, tmp, iter, preempts>>

\* ================================================================ I/O
\* The endpoints of the model.  An endpoint's operation table is fixed by
\* its kind: memio has no close, a seekable adapter closes with
\* seekio_close, a file with ktfs_close, a pipe end with pipe_close, the
\* block device with vioblk_close.
Files == {"a", "b"}
FileIo(f) == IF f = "a" THEN "file_a" ELSE "file_b"
SeekIo(f) == IF f = "a" THEN "seek_a" ELSE "seek_b"
Endpoints == {"mem", "seek_m", "file_a", "seek_a", "file_b", "seek_b",
              "pipe_w", "pipe_r", "dev"}
Kind(e) == CASE e = "mem" -> "memio"
             [] e \in {"seek_m", "seek_a", "seek_b"} -> "seekio"
             [] e \in {"file_a", "file_b"} -> "ktfs_file"
             [] e \in {"pipe_w", "pipe_r"} -> "pipe"
             [] e = "dev" -> "vioblk"
\* sio->bkgio
bkgio(e) == CASE e = "seek_m" -> "mem"
              [] e = "seek_a" -> "file_a"
              [] e = "seek_b" -> "file_b"
\* Endpoints of different families share no state, so a run exercises the
\* endpoints of one family, chosen initially.
Groups == {"memio", "ktfs", "pipe", "vioblk"}
Group(e) == CASE Kind(e) = "seekio" -> (IF e = "seek_m" THEN "memio" ELSE "ktfs")
              [] Kind(e) = "ktfs_file" -> "ktfs"
              [] OTHER -> Kind(e)
\* intf->close != NULL
HasClose(e) == Kind(e) # "memio"

MaxRef == 2           \* bound on the ioaddref calls made on one endpoint
MaxOpen == 2          \* slots of open_file_names the model uses
NoFile == [name |-> "", fio |-> ""]

\* the I/O state as one record, so that nested calls compose
IoState == [ref |-> io_refcnt, live |-> io_live, nclose |-> n_ioclose,
            ncop |-> n_closeop, bad |-> close_nonzero,
            tab |-> open_file_names, cnt |-> cur_file_count,
            freed |-> pipe_freed, halt |-> io_halt]

\* ktfs_close (404-424): swap the name of the last open-file slot with the
\* name of this file's slot and drop the last slot.  With no slot in use
\* the code indexes open_file_names[-1].
ktfs_close(S, e) ==
    IF S.cnt = 0 THEN [S EXCEPT !.halt = "ub"]
    ELSE LET last == S.cnt
             mine == name_pos[e]
         IN [S EXCEPT !.tab = [@ EXCEPT ![last].name = S.tab[mine].name,
                                        ![mine].name = S.tab[last].name],
                      !.cnt = @ - 1]

\* pipe_close (157-179): the page is freed when both ends have no reference
pipe_close(S, e) ==
    [S EXCEPT !.freed = @ \/ (S.ref["pipe_r"] = 0 /\ S.ref["pipe_w"] = 0)]

\* io->intf->close(io) for an endpoint that is not a seekable adapter
CloseOp(S, e) ==
    LET S1 == [S EXCEPT !.ncop[e] = @ + 1, !.bad[e] = @ \/ (S.ref[e] # 0)]
    IN CASE Kind(e) = "ktfs_file" -> ktfs_close(S1, e)
         [] Kind(e) = "pipe" -> pipe_close(S1, e)
         [] OTHER -> S1

\* ioclose (438-448) on an endpoint that is not a seekable adapter.  refcnt
\* is unsigned long; the model keeps its signed representative, which the
\* code only ever compares with 0.
ioclose_plain(S, e) ==
    IF S.ref[e] = 0 THEN [S EXCEPT !.halt = "panic"]   \* assert(refcnt != 0)
    ELSE LET S1 == [S EXCEPT !.ref[e] = @ - 1, !.nclose[e] = @ + 1]
         IN IF S1.ref[e] = 0 /\ HasClose(e) THEN CloseOp(S1, e) ELSE S1

\* seekio_close (683-689): sio->bkgio->refcnt--; ioclose(sio->bkgio); kfree
seekio_close(S, e) ==
    LET S1 == [S EXCEPT !.ncop[e] = @ + 1, !.bad[e] = @ \/ (S.ref[e] # 0),
                        !.ref[bkgio(e)] = @ - 1]
        S2 == ioclose_plain(S1, bkgio(e))
    IN [S2 EXCEPT !.live[e] = FALSE]

\* ioclose (438-448)
ioclose(S, e) ==
    IF Kind(e) # "seekio" THEN ioclose_plain(S, e)
    ELSE IF S.ref[e] = 0 THEN [S EXCEPT !.halt = "panic"]
    ELSE LET S1 == [S EXCEPT !.ref[e] = @ - 1, !.nclose[e] = @ + 1]
         IN IF S1.ref[e] = 0 THEN seekio_close(S1, e) ELSE S1

\* the variables take the values of the record
IoBecomes(S) ==
    /\ io_refcnt' = S.ref
    /\ io_live' = S.live
    /\ n_ioclose' = S.nclose
    /\ n_closeop' = S.ncop
    /\ close_nonzero' = S.bad
    /\ open_file_names' = S.tab
    /\ cur_file_count' = S.cnt
    /\ pipe_freed' = S.freed
    /\ io_halt' = S.halt

\* ioinit0 / ioinit1 (408-423) of a new endpoint object
ioinit(S, e, n) ==
    [S EXCEPT !.ref[e] = n, !.live[e] = TRUE, !.nclose[e] = 0,
              !.ncop[e] = 0, !.bad[e] = FALSE]

IoRun == io_halt = "run" /\ UNCHANGED nonIoVars /\ UNCHANGED io_group

\* create_memory_io (572-582)
create_memory_io ==
    /\ IoRun /\ io_group = "memio"
    /\ ~io_live["mem"]
    /\ IoBecomes(ioinit(IoState, "mem", 1))
    /\ n_init1' = [n_init1 EXCEPT !["mem"] = 1]
    /\ n_addref' = [n_addref EXCEPT !["mem"] = 0]
    /\ io_held' = [io_held EXCEPT !["mem"] = 1]
    /\ UNCHANGED <<name_pos, dir>>

\* create_seekable_io (584-609) over the memory endpoint
create_seekable_io ==
    /\ IoRun /\ io_group = "memio"
    /\ io_live["mem"] /\ io_held["mem"] > 0 /\ ~io_live["seek_m"]
    /\ n_addref["mem"] < MaxRef
    /\ IoBecomes([ioinit(IoState, "seek_m", 1) EXCEPT !.ref["mem"] = @ + 1])
    /\ n_init1' = [n_init1 EXCEPT !["seek_m"] = 1]
    /\ n_addref' = [n_addref EXCEPT !["seek_m"] = 0, !["mem"] = @ + 1]
    /\ io_held' = [io_held EXCEPT !["seek_m"] = 1]
    /\ UNCHANGED <<name_pos, dir>>

\* create_pipe (140-155)
create_pipe ==
    /\ IoRun /\ io_group = "pipe"
    /\ ~io_live["pipe_r"] /\ ~io_live["pipe_w"] /\ ~pipe_freed
    /\ IoBecomes(ioinit(ioinit(IoState, "pipe_r", 1), "pipe_w", 1))
    /\ n_init1' = [n_init1 EXCEPT !["pipe_r"] = 1, !["pipe_w"] = 1]
    /\ n_addref' = [n_addref EXCEPT !["pipe_r"] = 0, !["pipe_w"] = 0]
    /\ io_held' = [io_held EXCEPT !["pipe_r"] = 1, !["pipe_w"] = 1]
    /\ UNCHANGED <<name_pos, dir>>

\* vioblk_open (252-268): ioaddref on the device endpoint set up by ioinit0
vioblk_open ==
    /\ IoRun /\ io_group = "vioblk"
    /\ n_addref["dev"] < MaxRef
    /\ io_refcnt' = [io_refcnt EXCEPT !["dev"] = @ + 1]
    /\ n_addref' = [n_addref EXCEPT !["dev"] = @ + 1]
    /\ io_held' = [io_held EXCEPT !["dev"] = @ + 1]
    /\ UNCHANGED <<io_live, n_init1, n_ioclose, n_closeop, close_nonzero,
                   open_file_names, cur_file_count, name_pos, dir,
                   pipe_freed, io_halt>>

\* ioaddref (431-436) by a caller that holds a reference (sysiodup, fork)
ioaddref ==
    /\ IoRun
    /\ \E e \in Endpoints :
        /\ io_live[e] /\ io_held[e] > 0 /\ n_addref[e] < MaxRef
        /\ io_refcnt' = [io_refcnt EXCEPT ![e] = @ + 1]
        /\ n_addref' = [n_addref EXCEPT ![e] = @ + 1]
        /\ io_held' = [io_held EXCEPT ![e] = @ + 1]
    /\ UNCHANGED <<io_live, n_init1, n_ioclose, n_closeop, close_nonzero,
                   open_file_names, cur_file_count, name_pos, dir,
                   pipe_freed, io_halt>>

\* ioclose by a caller that holds a reference (sysclose, process exit)
ioclose_call ==
    /\ IoRun
    /\ \E e \in Endpoints :
        /\ io_live[e] /\ io_held[e] > 0
        /\ io_held' = [io_held EXCEPT ![e] = @ - 1]
        /\ IoBecomes(ioclose(IoState, e))
    /\ UNCHANGED <<n_init1, n_addref, name_pos, dir>>

\* ktfs_open (324-402) of a name in the directory: -EBUSY if the name is in
\* the first cur_file_count slots, else a new file endpoint (ioinit1)
\* recorded in the next slot and wrapped by create_seekable_io
IsOpenName(S, f) == \E i \in 1 .. S.cnt : S.tab[i].name = f
ktfs_open ==
    /\ IoRun /\ io_group = "ktfs"
    /\ \E f \in dir :
        /\ IF IsOpenName(IoState, f)
           THEN UNCHANGED <<io_live, io_refcnt, io_held, n_init1, n_addref,
                            n_ioclose, n_closeop, close_nonzero,
                            open_file_names, cur_file_count, name_pos, dir,
                            pipe_freed, io_halt>>
           ELSE \* the new objects take the place of the closed ones
                /\ cur_file_count < MaxOpen
                /\ ~io_live[SeekIo(f)]
                /\ ~io_live[FileIo(f)] \/ io_refcnt[FileIo(f)] = 0
                /\ LET S1 == ioinit(IoState, FileIo(f), 1)
                    S2 == [S1 EXCEPT !.tab[S1.cnt + 1] =
                                         [name |-> f, fio |-> FileIo(f)],
                                     !.cnt = @ + 1]
                    S3 == [ioinit(S2, SeekIo(f), 1) EXCEPT !.ref[FileIo(f)] = @ + 1]
                   IN /\ IoBecomes(S3)
                      /\ name_pos' = [name_pos EXCEPT ![FileIo(f)] = cur_file_count + 1]
                      /\ n_init1' = [n_init1 EXCEPT ![FileIo(f)] = 1, ![SeekIo(f)] = 1]
                      /\ n_addref' = [n_addref EXCEPT ![FileIo(f)] = 1, ![SeekIo(f)] = 0]
                      /\ io_held' = [io_held EXCEPT ![FileIo(f)] = 0, ![SeekIo(f)] = 1]
                      /\ UNCHANGED dir

\* ktfs_delete (1073-1230), the part that concerns endpoints: a file whose
\* name is in the open-file table is closed by calling ktfs_close on the
\* endpoint recorded in that slot (1108-1119); the entry leaves the directory
ktfs_delete ==
    /\ IoRun /\ io_group = "ktfs"
    /\ \E f \in dir :
        /\ dir' = dir \ {f}
        /\ IF IsOpenName(IoState, f)
           THEN LET i == CHOOSE k \in 1 .. cur_file_count :
                            /\ open_file_names[k].name = f
                            /\ \A m \in 1 .. (k - 1) : open_file_names[m].name # f
                IN IoBecomes(CloseOp(IoState, open_file_names[i].fio))
           ELSE IoBecomes(IoState)
    /\ UNCHANGED <<io_held, n_init1, n_addref, name_pos>>

IoInit ==
    /\ io_live = [e \in Endpoints |-> e = "dev"]      \* vioblk_attach: ioinit0
    /\ io_refcnt = [e \in Endpoints |-> 0]
    /\ io_held = [e \in Endpoints |-> 0]
    /\ n_init1 = [e \in Endpoints |-> 0]
    /\ n_addref = [e \in Endpoints |-> 0]
    /\ n_ioclose = [e \in Endpoints |-> 0]
    /\ n_closeop = [e \in Endpoints |-> 0]
    /\ close_nonzero = [e \in Endpoints |-> FALSE]
    /\ open_file_names = [i \in 1 .. MaxOpen |-> NoFile]
    /\ cur_file_count = 0
    /\ name_pos = [e \in Endpoints |-> 0]
    /\ dir = Files
    /\ pipe_freed = FALSE
    /\ io_halt = "run"

NextIO ==
    \/ create_memory_io \/ create_seekable_io \/ create_pipe \/ vioblk_open
    \/ ioaddref \/ ioclose_call \/ ktfs_open \/ ktfs_delete

\* =============================================================== pipe
\* One writer thread and one reader thread on a pipe.  A thread that is
\* not blocked in condition_wait may take its next step at any time: this
\* covers cooperative scheduling and preemption at every point.
PipeProcs == {"reader", "writer"}
EPIPE == 0 - 32

\* rbuf_empty (327-330)
rbuf_empty(head, tail) == head = tail
\* a ring that takes one byte more than it holds
rbuf_full_OffByOne(head, tail) == ((tail - head) % 65536) = PAGE_SIZE + 1
\* rbuf_full (332-335): (uint16_t)(tailpos - headpos) == PAGE_SIZE
rbuf_full(head, tail) == ((tail - head) % 65536) = PAGE_SIZE

\* condition_broadcast on a condition of the pipe
PipeBroadcast(w, c) == [q \in PipeProcs |-> IF w[q] = c THEN "none" ELSE w[q]]

PipeStep(q, pc) ==
    /\ p_pc[q] = pc /\ p_wait[q] = "none"
    /\ UNCHANGED nonPipeVars

PipeInit ==
    /\ p_pc = [q \in PipeProcs |-> "idle"]
    /\ p_wait = [q \in PipeProcs |-> "none"]
    /\ headpos = 0 /\ tailpos = 0 /\ data = 0
    /\ pbuf = [i \in 0 .. (PAGE_SIZE - 1) |-> 0]
    /\ p_lock_owner = "NULL"
    /\ readio_refcnt = 1 /\ writeio_refcnt = 1
    /\ w_len = 0 /\ bytes_written = 0 /\ w_off = 0 /\ tpos = 0
    /\ r_bufsz = 0 /\ r_i = 0 /\ hpos = 0 /\ r_c = 0
    /\ w_ret = 0 /\ r_ret = 0
    /\ accepted = <<>> /\ received = <<>> /\ r_eof = FALSE

\* ---- the writer
\* pipe_write (257-289): argument checks and the test of the read end
pw_call ==
    /\ PipeStep("writer", "idle")
    /\ writeio_refcnt > 0 /\ w_off < MaxData
    /\ \E len \in 1 .. MaxChunk :
        /\ w_off + len <= MaxData
        /\ w_len' = len
        /\ bytes_written' = 0
        /\ IF readio_refcnt = 0
           THEN w_ret' = EPIPE /\ UNCHANGED p_pc
           ELSE p_pc' = [p_pc EXCEPT !["writer"] = "pw_full"] /\ UNCHANGED w_ret
    /\ UNCHANGED <<p_wait, headpos, tailpos, data, pbuf, p_lock_owner,
                   readio_refcnt, writeio_refcnt, w_off, tpos, r_bufsz, r_i,
                   hpos, r_c, r_ret, accepted, received, r_eof>>

\* pipe_write (292-297): while (rbuf_full(p)) condition_wait(&p->notfull)
pw_full ==
    /\ PipeStep("writer", "pw_full")
    /\ IF rbuf_full(headpos, tailpos)
       THEN p_wait' = [p_wait EXCEPT !["writer"] = "notfull"] /\ UNCHANGED p_pc
       ELSE p_pc' = [p_pc EXCEPT !["writer"] = "pw_check"] /\ UNCHANGED p_wait
    /\ UNCHANGED <<headpos, tailpos, data, pbuf, p_lock_owner, readio_refcnt,
                   writeio_refcnt, w_len, bytes_written, w_off, tpos, r_bufsz,
                   r_i, hpos, r_c, w_ret, r_ret, accepted, received, r_eof>>

\* pipe_write (299-307): the read end was closed
pw_check ==
    /\ PipeStep("writer", "pw_check")
    /\ IF readio_refcnt = 0
       THEN /\ p_pc' = [p_pc EXCEPT !["writer"] = "idle"]
            /\ IF bytes_written > 0
               THEN /\ p_wait' = PipeBroadcast(p_wait, "notempty")
                    /\ w_ret' = bytes_written
                    /\ w_off' = w_off + bytes_written
               ELSE /\ w_ret' = EPIPE
                    /\ UNCHANGED <<p_wait, w_off>>
       ELSE /\ p_pc' = [p_pc EXCEPT !["writer"] = "pw_acq"]
            /\ UNCHANGED <<p_wait, w_ret, w_off>>
    /\ UNCHANGED <<headpos, tailpos, data, pbuf, p_lock_owner, readio_refcnt,
                   writeio_refcnt, w_len, bytes_written, tpos, r_bufsz,
                   r_i, hpos, r_c, r_ret, accepted, received, r_eof>>

\* lock_acquire(&p->lock) (452-472): the test of the owner
pw_acq ==
    /\ PipeStep("writer", "pw_acq")
    /\ IF p_lock_owner # "NULL"
       THEN p_wait' = [p_wait EXCEPT !["writer"] = "released"] /\ UNCHANGED p_pc
       ELSE p_pc' = [p_pc EXCEPT !["writer"] = "pw_own"] /\ UNCHANGED p_wait
    /\ UNCHANGED <<headpos, tailpos, data, pbuf, p_lock_owner, readio_refcnt,
                   writeio_refcnt, w_len, bytes_written, w_off, tpos, r_bufsz,
                   r_i, hpos, r_c, w_ret, r_ret, accepted, received, r_eof>>

\* lock_acquire (466): lock->owner = TP
pw_own ==
    /\ PipeStep("writer", "pw_own")
    /\ p_lock_owner' = "writer"
    /\ p_pc' = [p_pc EXCEPT !["writer"] = "pw_putc"]
    /\ UNCHANGED <<p_wait, headpos, tailpos, data, pbuf, readio_refcnt,
                   writeio_refcnt, w_len, bytes_written, w_off, tpos, r_bufsz,
                   r_i, hpos, r_c, w_ret, r_ret, accepted, received, r_eof>>

\* rbuf_putc (337-342): tpos = tailpos; buf[tpos % PAGE_SIZE] = c.  The
\* bytes of the writer are numbered 1, 2, ... in the order it sends them.
pw_putc ==
    /\ PipeStep("writer", "pw_putc")
    /\ tpos' = tailpos
    /\ pbuf' = [pbuf EXCEPT ![tailpos % PAGE_SIZE] = w_off + bytes_written + 1]
    /\ p_pc' = [p_pc EXCEPT !["writer"] = "pw_tail"]
    /\ UNCHANGED <<p_wait, headpos, tailpos, data, p_lock_owner, readio_refcnt,
                   writeio_refcnt, w_len, bytes_written, w_off, r_bufsz,
                   r_i, hpos, r_c, w_ret, r_ret, accepted, received, r_eof>>

\* rbuf_putc (344): tailpos = tpos + 1; then p->data++ (310)
pw_tail ==
    /\ PipeStep("writer", "pw_tail")
    /\ tailpos' = tpos + 1
    /\ data' = data + 1
    /\ accepted' = Append(accepted, w_off + bytes_written + 1)
    /\ p_pc' = [p_pc EXCEPT !["writer"] = "pw_rel"]
    /\ UNCHANGED <<p_wait, headpos, pbuf, p_lock_owner, readio_refcnt,
                   writeio_refcnt, w_len, bytes_written, w_off, tpos, r_bufsz,
                   r_i, hpos, r_c, w_ret, r_ret, received, r_eof>>

\* lock_release(&p->lock) (474-494)
pw_rel ==
    /\ PipeStep("writer", "pw_rel")
    /\ p_lock_owner' = "NULL"
    /\ p_wait' = PipeBroadcast(p_wait, "released")
    /\ p_pc' = [p_pc EXCEPT !["writer"] = "pw_bcast"]
    /\ UNCHANGED <<headpos, tailpos, data, pbuf, readio_refcnt,
                   writeio_refcnt, w_len, bytes_written, w_off, tpos, r_bufsz,
                   r_i, hpos, r_c, w_ret, r_ret, accepted, received, r_eof>>

\* a writer that wakes the reader only when the call returns
pw_bcast_NoWake ==
    /\ PipeStep("writer", "pw_bcast")
    /\ p_wait' = p_wait
    /\ bytes_written' = bytes_written + 1
    /\ p_pc' = [p_pc EXCEPT !["writer"] =
                   IF bytes_written + 1 < w_len THEN "pw_full" ELSE "pw_ret"]
    /\ UNCHANGED <<headpos, tailpos, data, pbuf, p_lock_owner, readio_refcnt,
                   writeio_refcnt, w_len, w_off, tpos, r_bufsz,
                   r_i, hpos, r_c, w_ret, r_ret, accepted, received, r_eof>>

\* pipe_write (317-321) and the loop increment
pw_bcast ==
    /\ PipeStep("writer", "pw_bcast")
    /\ p_wait' = IF bytes_written % PAGE_SIZE = 0
                 THEN PipeBroadcast(p_wait, "notempty") ELSE p_wait
    /\ bytes_written' = bytes_written + 1
    /\ p_pc' = [p_pc EXCEPT !["writer"] =
                   IF bytes_written + 1 < w_len THEN "pw_full" ELSE "pw_ret"]
    /\ UNCHANGED <<headpos, tailpos, data, pbuf, p_lock_owner, readio_refcnt,
                   writeio_refcnt, w_len, w_off, tpos, r_bufsz,
                   r_i, hpos, r_c, w_ret, r_ret, accepted, received, r_eof>>

\* pipe_write (323-324)
pw_ret ==
    /\ PipeStep("writer", "pw_ret")
    /\ p_wait' = PipeBroadcast(p_wait, "notempty")
    /\ w_ret' = bytes_written
    /\ w_off' = w_off + bytes_written
    /\ p_pc' = [p_pc EXCEPT !["writer"] = "idle"]
    /\ UNCHANGED <<headpos, tailpos, data, pbuf, p_lock_owner, readio_refcnt,
                   writeio_refcnt, w_len, bytes_written, tpos, r_bufsz,
                   r_i, hpos, r_c, r_ret, accepted, received, r_eof>>

\* ioclose of the write end by the writer: refcnt 0, pipe_close (157-179)
pw_close ==
    /\ PipeStep("writer", "idle")
    /\ writeio_refcnt > 0
    /\ writeio_refcnt' = writeio_refcnt - 1
    /\ UNCHANGED <<p_pc, p_wait, headpos, tailpos, data, pbuf, p_lock_owner,
                   readio_refcnt, w_len, bytes_written, w_off, tpos, r_bufsz,
                   r_i, hpos, r_c, w_ret, r_ret, accepted, received, r_eof>>

\* ---- the reader
\* pipe_read (181-210): argument checks
pr_call ==
    /\ PipeStep("reader", "idle")
    /\ readio_refcnt > 0 /\ ~r_eof
    /\ \E bufsz \in 1 .. MaxChunk : r_bufsz' = bufsz
    /\ p_pc' = [p_pc EXCEPT !["reader"] = "pr_while"]
    /\ UNCHANGED <<p_wait, headpos, tailpos, data, pbuf, p_lock_owner,
                   readio_refcnt, writeio_refcnt, w_len, bytes_written, w_off,
                   tpos, r_i, hpos, r_c, w_ret, r_ret, accepted, received,
                   r_eof>>

\* pipe_read (220-226): while (rbuf_empty(p) && p->writeio.refcnt > 0)
\*                          condition_wait(&p->notempty)
pr_while ==
    /\ PipeStep("reader", "pr_while")
    /\ IF rbuf_empty(headpos, tailpos) /\ writeio_refcnt > 0
       THEN p_wait' = [p_wait EXCEPT !["reader"] = "notempty"] /\ UNCHANGED p_pc
       ELSE p_pc' = [p_pc EXCEPT !["reader"] = "pr_if"] /\ UNCHANGED p_wait
    /\ UNCHANGED <<headpos, tailpos, data, pbuf, p_lock_owner, readio_refcnt,
                   writeio_refcnt, w_len, bytes_written, w_off, tpos, r_bufsz,
                   r_i, hpos, r_c, w_ret, r_ret, accepted, received, r_eof>>

\* pipe_read (227-233): end of file
pr_if ==
    /\ PipeStep("reader", "pr_if")
    /\ IF rbuf_empty(headpos, tailpos) /\ writeio_refcnt = 0
       THEN /\ r_ret' = 0 /\ r_eof' = TRUE
            /\ p_pc' = [p_pc EXCEPT !["reader"] = "idle"]
            /\ UNCHANGED r_i
       ELSE /\ r_i' = 0
            /\ p_pc' = [p_pc EXCEPT !["reader"] = "pr_loop"]
            /\ UNCHANGED <<r_ret, r_eof>>
    /\ UNCHANGED <<p_wait, headpos, tailpos, data, pbuf, p_lock_owner,
                   readio_refcnt, writeio_refcnt, w_len, bytes_written, w_off,
                   tpos, r_bufsz, hpos, r_c, w_ret, accepted, received>>

\* pipe_read (235-237, 246-254): the loop test, the test of the ring, the returns
pr_loop ==
    /\ PipeStep("reader", "pr_loop")
    /\ IF r_i < r_bufsz /\ ~rbuf_empty(headpos, tailpos)
       THEN /\ p_pc' = [p_pc EXCEPT !["reader"] = "pr_getc"]
            /\ UNCHANGED <<p_wait, r_ret>>
       ELSE /\ p_wait' = PipeBroadcast(p_wait, "notfull")
            /\ r_ret' = r_i
            /\ p_pc' = [p_pc EXCEPT !["reader"] = "idle"]
    /\ UNCHANGED <<headpos, tailpos, data, pbuf, p_lock_owner, readio_refcnt,
                   writeio_refcnt, w_len, bytes_written, w_off, tpos, r_bufsz,
                   r_i, hpos, r_c, w_ret, accepted, received, r_eof>>

\* rbuf_getc (347-353): hpos = headpos; c = buf[hpos % PAGE_SIZE]
pr_getc ==
    /\ PipeStep("reader", "pr_getc")
    /\ hpos' = headpos
    /\ r_c' = pbuf[headpos % PAGE_SIZE]
    /\ p_pc' = [p_pc EXCEPT !["reader"] = "pr_head"]
    /\ UNCHANGED <<p_wait, headpos, tailpos, data, pbuf, p_lock_owner,
                   readio_refcnt, writeio_refcnt, w_len, bytes_written, w_off,
                   tpos, r_bufsz, r_i, w_ret, r_ret, accepted, received,
                   r_eof>>

\* rbuf_getc (355): headpos = hpos + 1
pr_head ==
    /\ PipeStep("reader", "pr_head")
    /\ headpos' = hpos + 1
    /\ p_pc' = [p_pc EXCEPT !["reader"] = "pr_acq"]
    /\ UNCHANGED <<p_wait, tailpos, data, pbuf, p_lock_owner,
                   readio_refcnt, writeio_refcnt, w_len, bytes_written, w_off,
                   tpos, r_bufsz, r_i, hpos, r_c, w_ret, r_ret, accepted,
                   received, r_eof>>

\* lock_acquire(&p->lock) (452-472): the test of the owner
pr_acq ==
    /\ PipeStep("reader", "pr_acq")
    /\ IF p_lock_owner # "NULL"
       THEN p_wait' = [p_wait EXCEPT !["reader"] = "released"] /\ UNCHANGED p_pc
       ELSE p_pc' = [p_pc EXCEPT !["reader"] = "pr_own"] /\ UNCHANGED p_wait
    /\ UNCHANGED <<headpos, tailpos, data, pbuf, p_lock_owner, readio_refcnt,
                   writeio_refcnt, w_len, bytes_written, w_off, tpos, r_bufsz,
                   r_i, hpos, r_c, w_ret, r_ret, accepted, received, r_eof>>

\* lock_acquire (466): lock->owner = TP
pr_own ==
    /\ PipeStep("reader", "pr_own")
    /\ p_lock_owner' = "reader"
    /\ p_pc' = [p_pc EXCEPT !["reader"] = "pr_store"]
    /\ UNCHANGED <<p_wait, headpos, tailpos, data, pbuf, readio_refcnt,
                   writeio_refcnt, w_len, bytes_written, w_off, tpos, r_bufsz,
                   r_i, hpos, r_c, w_ret, r_ret, accepted, received, r_eof>>

\* pipe_read (241-242): buf[i] = c; p->data--
pr_store ==
    /\ PipeStep("reader", "pr_store")
    /\ received' = Append(received, r_c)
    /\ data' = data - 1
    /\ p_pc' = [p_pc EXCEPT !["reader"] = "pr_rel"]
    /\ UNCHANGED <<p_wait, headpos, tailpos, pbuf, p_lock_owner, readio_refcnt,
                   writeio_refcnt, w_len, bytes_written, w_off, tpos, r_bufsz,
                   r_i, hpos, r_c, w_ret, r_ret, accepted, r_eof>>

\* lock_release(&p->lock) (474-494) and the loop increment
pr_rel ==
    /\ PipeStep("reader", "pr_rel")
    /\ p_lock_owner' = "NULL"
    /\ p_wait' = PipeBroadcast(p_wait, "released")
    /\ r_i' = r_i + 1
    /\ p_pc' = [p_pc EXCEPT !["reader"] = "pr_loop"]
    /\ UNCHANGED <<headpos, tailpos, data, pbuf, readio_refcnt,
                   writeio_refcnt, w_len, bytes_written, w_off, tpos, r_bufsz,
                   hpos, r_c, w_ret, r_ret, accepted, received, r_eof>>

\* ioclose of the read end by the reader: refcnt 0, pipe_close (157-179)
pr_close ==
    /\ PipeStep("reader", "idle")
    /\ readio_refcnt > 0
    /\ readio_refcnt' = readio_refcnt - 1
    /\ UNCHANGED <<p_pc, p_wait, headpos, tailpos, data, pbuf, p_lock_owner,
                   writeio_refcnt, w_len, bytes_written, w_off, tpos, r_bufsz,
                   r_i, hpos, r_c, w_ret, r_ret, accepted, received, r_eof>>

NextPipe ==
    \/ pw_call \/ pw_full \/ pw_check \/ pw_acq \/ pw_own \/ pw_putc
    \/ pw_tail \/ pw_rel \/ pw_bcast \/ pw_ret \/ pw_close
    \/ pr_call \/ pr_while \/ pr_if \/ pr_loop \/ pr_getc \/ pr_head
    \/ pr_acq \/ pr_own \/ pr_store \/ pr_rel \/ pr_close

\* ======================================================== block cache
\* Threads that use the cache.  A thread runs until it suspends: in
\* ioreadat and iowriteat on the block device (vioblk_readat and
\* vioblk_writeat wait for the device on a condition) and in lock_acquire
\* when another thread owns the cache lock.
CacheThreads == {1, 2}
Slots == 0 .. (CACHE_BLOCK_AMMOUNT - 1)
Blocks == 1 .. NBlocks
NoThread == 0
NoWrite == [off |-> 0, req |-> 0, val |-> 0, locked |-> TRUE]

\* the least element of S: the for loops stop at the first match
FirstSlot(S) == CHOOSE i \in S : \A j \in S : i <= j

\* cache_get_block (83-92): the slots whose block_id is the requested block
HitSlots(b) == {i \in Slots : block_id[i] = b}
\* cache_get_block (95-109): the slots that were never filled
EmptySlots == {i \in Slots : block_id[i] = 0 - 1}
\* cache_get_block (112-133): the first slot with the least assign_num
MinAssign == CHOOSE m \in {assign_num[i] : i \in Slots} :
                 \A i \in Slots : m <= assign_num[i]
VictimSlot == FirstSlot({i \in Slots : assign_num[i] = MinAssign})

\* lock_acquire(&cache->cache_lock) (452-472) by thread t, then
\* cache->lock_owner = i and the return of cache_get_block: the buffer of
\* slot i is handed to the caller for block b.  A thread that finds the lock
\* owned by another thread waits on the lock's condition.
CacheLock(t, i, b) ==
    IF cache_lock.owner = t
    THEN /\ cache_lock' = [cache_lock EXCEPT !.count = @ + 1]
         /\ lock_owner_slot' = i
         /\ pinned' = [pinned EXCEPT ![t] = Append(@, [slot |-> i, blk |-> b])]
         /\ c_pc' = [c_pc EXCEPT ![t] = "idle"]
         /\ UNCHANGED c_wait
    ELSE IF cache_lock.owner = NoThread
    THEN /\ cache_lock' = [cache_lock EXCEPT !.owner = t]
         /\ lock_owner_slot' = i
         /\ pinned' = [pinned EXCEPT ![t] = Append(@, [slot |-> i, blk |-> b])]
         /\ c_pc' = [c_pc EXCEPT ![t] = "idle"]
         /\ UNCHANGED c_wait
    ELSE /\ c_pc' = [c_pc EXCEPT ![t] = "cg_lock"]
         /\ c_wait' = [c_wait EXCEPT ![t] = TRUE]
         /\ UNCHANGED <<cache_lock, lock_owner_slot, pinned>>

CacheStep(t, pc) ==
    /\ c_pc[t] = pc /\ ~c_wait[t]
    /\ UNCHANGED nonCacheVars

\* create_cache (50-72); the backing store holds the value b in block b
CacheInit ==
    /\ block_id = [i \in Slots |-> 0 - 1]
    /\ assign_num = [i \in Slots |-> 0]
    /\ slot_data = [i \in Slots |-> 0]
    /\ cache_lock = [owner |-> NoThread, count |-> 0]
    /\ lock_owner_slot = 0 - 1
    /\ disk = [b \in Blocks |-> b]
    /\ c_pc = [t \in CacheThreads |-> "idle"]
    /\ c_wait = [t \in CacheThreads |-> FALSE]
    /\ c_blk = [t \in CacheThreads |-> 0]
    /\ c_slot = [t \in CacheThreads |-> 0]
    /\ c_rel = [t \in CacheThreads |-> 0]
    /\ pinned = [t \in CacheThreads |-> <<>>]
    /\ last_write = NoWrite
    /\ last_release = [dirty |-> FALSE, wrote |-> FALSE]

\* cache_get_block (74-135) up to the point where the caller suspends or
\* returns: a hit goes to lock_acquire, a miss picks a slot and calls
\* ioreadat
cache_get_block ==
    \E t \in CacheThreads, b \in Blocks :
        /\ CacheStep(t, "idle")
        /\ Len(pinned[t]) < MaxPins
        /\ c_blk' = [c_blk EXCEPT ![t] = b]
        /\ IF HitSlots(b) # {}
           THEN /\ c_slot' = [c_slot EXCEPT ![t] = FirstSlot(HitSlots(b))]
                /\ CacheLock(t, FirstSlot(HitSlots(b)), b)
           ELSE /\ c_slot' = [c_slot EXCEPT ![t] =
                                 IF EmptySlots # {} THEN FirstSlot(EmptySlots)
                                 ELSE VictimSlot]
                /\ c_pc' = [c_pc EXCEPT ![t] = "cg_read"]
                /\ UNCHANGED <<cache_lock, lock_owner_slot, pinned, c_wait>>
        /\ UNCHANGED <<block_id, assign_num, slot_data, disk, c_rel, last_write,
                       last_release>>

\* cache_get_block (100-106, 125-131): ioreadat has filled the buffer; the
\* slot takes the block number; lock_acquire
cg_read ==
    \E t \in CacheThreads :
        /\ CacheStep(t, "cg_read")
        /\ slot_data' = [slot_data EXCEPT ![c_slot[t]] = disk[c_blk[t]]]
        /\ block_id' = [block_id EXCEPT ![c_slot[t]] = c_blk[t]]
        /\ CacheLock(t, c_slot[t], c_blk[t])
        /\ UNCHANGED <<assign_num, disk, c_blk, c_slot, c_rel, last_write,
                       last_release>>

\* lock_acquire (462-465) after the lock was released: test the owner again
cg_lock ==
    \E t \in CacheThreads :
        /\ CacheStep(t, "cg_lock")
        /\ CacheLock(t, c_slot[t], c_blk[t])
        /\ UNCHANGED <<block_id, assign_num, slot_data, disk, c_blk, c_slot,
                       c_rel, last_write, last_release>>

\* cache_release_block (157-182): the release rank of slot i
ReleaseRank(i) ==
    LET num_released_blocks ==
            (IF assign_num[i] = 0 THEN 1 ELSE 0)
              + Cardinality({j \in Slots : assign_num[j] # 0})
    IN IF assign_num[i] = num_released_blocks THEN assign_num
       ELSE IF assign_num[i] = 0
       THEN [assign_num EXCEPT ![i] = num_released_blocks]
       ELSE [j \in Slots |->
                IF j = i THEN num_released_blocks
                ELSE IF assign_num[j] > 1 THEN assign_num[j] - 1
                ELSE assign_num[j]]

RemoveAt(s, k) == [j \in 1 .. (Len(s) - 1) |-> IF j < k THEN s[j] ELSE s[j + 1]]

\* cache_release_block (157-188) for the k-th buffer thread t holds: the
\* rank bookkeeping, lock_release (474-494) and cache->lock_owner = -1
CacheUnlock(t, k) ==
    /\ assign_num' = ReleaseRank(pinned[t][k].slot)
    /\ IF cache_lock.count = 0
       THEN /\ cache_lock' = [cache_lock EXCEPT !.owner = NoThread]
            /\ c_wait' = [u \in CacheThreads |-> FALSE]
       ELSE /\ cache_lock' = [cache_lock EXCEPT !.count = @ - 1]
            /\ UNCHANGED c_wait
    /\ lock_owner_slot' = 0 - 1
    /\ pinned' = [pinned EXCEPT ![t] = RemoveAt(@, k)]
    /\ c_pc' = [c_pc EXCEPT ![t] = "idle"]

\* cache_release_block (137-155): find the slot of the buffer; a dirty
\* release calls iowriteat at block_id * CACHE_BLKSZ, which suspends the
\* caller; a clean release goes on to the bookkeeping
cache_release_block ==
    \E t \in CacheThreads, dirty \in BOOLEAN :
        /\ CacheStep(t, "idle")
        /\ \E k \in 1 .. Len(pinned[t]) :
            LET i == pinned[t][k].slot IN
            /\ c_rel' = [c_rel EXCEPT ![t] = k]
            /\ last_release' = [dirty |-> dirty, wrote |-> dirty]
            /\ IF dirty
               THEN /\ disk' = [disk EXCEPT ![block_id[i]] = slot_data[i]]
                    /\ last_write' =
                          [off |-> block_id[i], req |-> pinned[t][k].blk,
                           val |-> slot_data[i],
                           locked |-> cache_lock.owner = t]
                    /\ c_pc' = [c_pc EXCEPT ![t] = "cr_done"]
                    /\ UNCHANGED <<assign_num, cache_lock, c_wait,
                                   lock_owner_slot, pinned>>
               ELSE /\ CacheUnlock(t, k)
                    /\ UNCHANGED <<disk, last_write>>
        /\ UNCHANGED <<block_id, slot_data, c_blk, c_slot>>

\* cache_release_block (152-188) after iowriteat has returned
cr_done ==
    \E t \in CacheThreads :
        /\ CacheStep(t, "cr_done")
        /\ CacheUnlock(t, c_rel[t])
        /\ UNCHANGED <<block_id, slot_data, disk, c_blk, c_slot, c_rel,
                       last_write, last_release>>

NextCache ==
    \/ cache_get_block \/ cg_read \/ cg_lock
    \/ cache_release_block \/ cr_done

\* ================================================= virtio block driver
\* dev/vioblk.c.  Threads are scheduled cooperatively here: a caller runs
\* from one suspension (condition_wait on the lock or on
\* vioblk_buffer_condition) to the next without interleaving.
VioblkThreads == {1, 2}
VIRTIO_BLK_T_IN == 0
VIRTIO_BLK_T_OUT == 1
VbEnd == VIOBLK_CAPACITY * VIOBLK_BLKSZ      \* end (308, 382)
VbPositions == 0 .. VbEnd + 1
VbSizes == 0 .. MaxBufsz
\* a long result: a count, or the negative of an error code (error.h is not
\* among the sources, so a code is kept by name)
RetOk(n) == [err |-> "", val |-> n]
RetErr(e) == [err |-> e, val |-> 0]

\* bytes k+1 .. k+n of a sequence
SubBytes(s, k, n) == [j \in 1 .. n |-> s[k + j]]
\* s with the bytes of b stored from offset k
StoreBytes(s, k, b) ==
    [j \in 1 .. Len(s) |->
        IF j > k /\ j <= k + Len(b) THEN b[j - k] ELSE s[j]]
\* the bytes a caller passes to a write: each caller has its own value
OutBytes(t, n) == [j \in 1 .. n |-> t]
ZeroBytes(n) == [j \in 1 .. n |-> 0]
\* the caller's buffer at the call: the bytes to write, or room to read
VbBuffer(t, op, bufsz) ==
    IF op = "write" THEN OutBytes(t, bufsz) ELSE ZeroBytes(bufsz)

BlkType(op) == IF op = "read" THEN VIRTIO_BLK_T_IN ELSE VIRTIO_BLK_T_OUT
\* byteread (338) and bytewritten (411)
VbCount(pos, bufsz) == IF pos + bufsz > VbEnd THEN VbEnd - pos ELSE bufsz
\* numBlocks (340, 413)
VbNumBlocks(pos, bufsz) == VbCount(pos, bufsz) \div VIOBLK_BLKSZ
NoPub == [type |-> 0 - 1, sector |-> 0, dwrite |-> FALSE, data |-> <<>>]
NoCall == [done |-> FALSE, pos |-> 0, buf |-> <<>>, ret |-> RetOk(0)]
\* the threads that call the driver
VbCallers == IF vb_single THEN {1} ELSE VioblkThreads

VioblkInit ==
    /\ vb_header = [type |-> VIRTIO_BLK_T_IN, sector |-> 0]
    /\ vb_dwrite = FALSE
    /\ vb_data = ZeroBytes(VIOBLK_BLKSZ)
    /\ avail_idx = 0
    /\ used_idx = 0
    /\ vioblk_lock = NoThread
    /\ vb_disk = ZeroBytes(VbEnd)
    /\ vb_pc = [t \in VioblkThreads |-> "idle"]
    /\ vb_woken = [t \in VioblkThreads |-> FALSE]
    /\ vb_op = [t \in VioblkThreads |-> "read"]
    /\ vb_pos = [t \in VioblkThreads |-> 0]
    /\ vb_bufsz = [t \in VioblkThreads |-> 0]
    /\ vb_i = [t \in VioblkThreads |-> 0]
    /\ vb_buf = [t \in VioblkThreads |-> <<>>]
    /\ vb_ret = RetOk(0)
    /\ vb_pub = NoPub
    /\ vb_lastw = NoCall
    /\ vb_lastr = NoCall

\* the loop body up to condition_wait (344-355, 417-429) of caller t at
\* iteration i, entered with header type ty and direction flag dw: the
\* sector is stored, a write copies its block into vioblk->data, the
\* request is published and the caller waits for the device.
VbPublish(t, op, pos, i, ty, dw, buf) ==
    LET sec == (pos \div VIOBLK_BLKSZ) + i
        dat == IF op = "write"
               THEN SubBytes(buf, i * VIOBLK_BLKSZ, VIOBLK_BLKSZ)
               ELSE vb_data
    IN  /\ vb_header' = [type |-> ty, sector |-> sec]
        /\ vb_dwrite' = dw
        /\ vb_data' = dat
        /\ avail_idx' = avail_idx + 1
        /\ vb_pub' = [type |-> ty, sector |-> sec, dwrite |-> dw,
                      data |-> dat]
        /\ vioblk_lock' = t
        /\ vb_i' = [vb_i EXCEPT ![t] = i]
        /\ vb_pc' = [vb_pc EXCEPT ![t] = "vb_wait"]
        /\ vb_woken' = [vb_woken EXCEPT ![t] = FALSE]

\* a call of the single caller has returned ret with its buffer holding
\* buf: a write starts a new pair, a read completes it
VbRecord(op, pos, buf, ret) ==
    LET call == [done |-> TRUE, pos |-> pos, buf |-> buf, ret |-> ret]
    IN  IF ~vb_single
        THEN UNCHANGED <<vb_lastw, vb_lastr>>
        ELSE IF op = "write"
        THEN vb_lastw' = call /\ vb_lastr' = NoCall
        ELSE vb_lastr' = call /\ UNCHANGED vb_lastw

\* the arguments and locals of a call that suspends
VbEnter(t, op, pos, bufsz) ==
    /\ vb_op' = [vb_op EXCEPT ![t] = op]
    /\ vb_pos' = [vb_pos EXCEPT ![t] = pos]
    /\ vb_bufsz' = [vb_bufsz EXCEPT ![t] = bufsz]

\* they are gone once the call has returned
VbLeave(t) ==
    /\ vb_op' = [vb_op EXCEPT ![t] = "read"]
    /\ vb_pos' = [vb_pos EXCEPT ![t] = 0]
    /\ vb_bufsz' = [vb_bufsz EXCEPT ![t] = 0]

\* lock_release and return (371-372, 443-444); the waiters of the lock are
\* woken by the broadcast of lock_release, and the caller's buffer leaves
\* the model
VbReturn(t, ret, buf) ==
    /\ vioblk_lock' = NoThread
    /\ vb_ret' = RetOk(ret)
    /\ VbRecord(vb_op[t], vb_pos[t], buf, RetOk(ret))
    /\ vb_buf' = [vb_buf EXCEPT ![t] = <<>>]
    /\ VbLeave(t)
    /\ vb_pc' = [vb_pc EXCEPT ![t] = "idle"]
    /\ vb_woken' = [u \in VioblkThreads |->
                       IF vb_pc[u] = "vb_acq" THEN TRUE ELSE vb_woken[u]]

\* vioblk_readat (301-373) and vioblk_writeat (375-445) from the call to
\* the first suspension.  The header type, the direction flag and the
\* sector are stored (334-336, 407-409) before lock_acquire (341, 414).
VioblkCall(t, op, pos, bufsz) ==
    /\ vb_pc[t] = "idle"
    /\ avail_idx < MaxReq
    /\ UNCHANGED nonVioblkVars
    /\ UNCHANGED <<used_idx, vb_disk, vb_single>>
    /\ IF pos = VbEnd \/ pos > VbEnd \/ bufsz = 0
       THEN \* 310-333, 384-406
            /\ vb_ret' = IF pos > VbEnd THEN RetErr("EINVAL") ELSE RetOk(0)
            /\ VbRecord(op, pos, VbBuffer(t, op, bufsz), vb_ret')
            /\ UNCHANGED <<vb_header, vb_dwrite, vb_data, avail_idx,
                           vioblk_lock, vb_pc, vb_woken, vb_i, vb_pub,
                           vb_op, vb_pos, vb_bufsz, vb_buf>>
       ELSE IF vioblk_lock # NoThread
       THEN \* lock_acquire waits; the header is already changed
            /\ vb_header' = [type |-> BlkType(op),
                             sector |-> pos \div VIOBLK_BLKSZ]
            /\ vb_dwrite' = (op = "read")
            /\ vb_pc' = [vb_pc EXCEPT ![t] = "vb_acq"]
            /\ vb_woken' = [vb_woken EXCEPT ![t] = FALSE]
            /\ vb_i' = [vb_i EXCEPT ![t] = 0]
            /\ VbEnter(t, op, pos, bufsz)
            /\ vb_buf' = [vb_buf EXCEPT ![t] = VbBuffer(t, op, bufsz)]
            /\ UNCHANGED <<vb_data, avail_idx, vioblk_lock, vb_ret, vb_pub,
                           vb_lastw, vb_lastr>>
       ELSE IF VbNumBlocks(pos, bufsz) = 0
       THEN \* the loop is not entered
            /\ vb_header' = [type |-> BlkType(op),
                             sector |-> pos \div VIOBLK_BLKSZ]
            /\ vb_dwrite' = (op = "read")
            /\ vb_ret' = RetOk(VbCount(pos, bufsz))
            /\ VbRecord(op, pos, VbBuffer(t, op, bufsz), vb_ret')
            /\ UNCHANGED <<vb_data, avail_idx, vioblk_lock, vb_pc, vb_woken,
                           vb_i, vb_pub, vb_op, vb_pos, vb_bufsz, vb_buf>>
       ELSE /\ vb_buf' = [vb_buf EXCEPT ![t] = VbBuffer(t, op, bufsz)]
            /\ VbEnter(t, op, pos, bufsz)
            /\ VbPublish(t, op, pos, 0, BlkType(op), op = "read",
                         VbBuffer(t, op, bufsz))
            /\ UNCHANGED <<vb_ret, vb_lastw, vb_lastr>>

vioblk_readat ==
    \E t \in VbCallers, pos \in VbPositions, bufsz \in VbSizes :
        VioblkCall(t, "read", pos, bufsz)

vioblk_writeat ==
    \E t \in VbCallers, pos \in VbPositions, bufsz \in VbSizes :
        VioblkCall(t, "write", pos, bufsz)

\* lock_acquire (341, 414) resumed after the lock was released
vb_acq ==
    \E t \in VioblkThreads :
        /\ vb_pc[t] = "vb_acq"
        /\ vb_woken[t]
        /\ UNCHANGED nonVioblkVars
        /\ UNCHANGED <<used_idx, vb_disk, vb_single>>
        /\ IF vioblk_lock # NoThread
           THEN /\ vb_woken' = [vb_woken EXCEPT ![t] = FALSE]
                /\ UNCHANGED <<vb_header, vb_dwrite, vb_data, avail_idx,
                               vioblk_lock, vb_pc, vb_i, vb_ret, vb_pub,
                               vb_op, vb_pos, vb_bufsz, vb_buf, vb_lastw,
                               vb_lastr>>
           ELSE IF VbNumBlocks(vb_pos[t], vb_bufsz[t]) = 0
           THEN /\ VbReturn(t, VbCount(vb_pos[t], vb_bufsz[t]), vb_buf[t])
                /\ UNCHANGED <<vb_header, vb_dwrite, vb_data, avail_idx,
                               vb_i, vb_pub>>
           ELSE /\ VbPublish(t, vb_op[t], vb_pos[t], 0, vb_header.type,
                             vb_dwrite, vb_buf[t])
                /\ UNCHANGED <<vb_ret, vb_op, vb_pos, vb_bufsz, vb_buf,
                               vb_lastw, vb_lastr>>

\* the rest of the loop body after condition_wait returns (351-369,
\* 425-441), then the next iteration or the return.  The device reports
\* success: the status tests (358-367, 432-441) fall through.
vb_wait ==
    \E t \in VioblkThreads :
        /\ vb_pc[t] = "vb_wait"
        /\ vb_woken[t]
        /\ UNCHANGED nonVioblkVars
        /\ UNCHANGED <<used_idx, vb_disk, vb_single>>
        /\ IF avail_idx # used_idx
           THEN /\ vb_woken' = [vb_woken EXCEPT ![t] = FALSE]
                /\ UNCHANGED <<vb_header, vb_dwrite, vb_data, avail_idx,
                               vioblk_lock, vb_pc, vb_i, vb_buf, vb_ret,
                               vb_pub, vb_op, vb_pos, vb_bufsz, vb_lastw,
                               vb_lastr>>
           ELSE LET buf == IF vb_op[t] = "read"
                           THEN StoreBytes(vb_buf[t],
                                           vb_i[t] * VIOBLK_BLKSZ, vb_data)
                           ELSE vb_buf[t]
                IN  IF vb_i[t] + 1 < VbNumBlocks(vb_pos[t], vb_bufsz[t])
                    THEN /\ vb_buf' = [vb_buf EXCEPT ![t] = buf]
                         /\ VbPublish(t, vb_op[t], vb_pos[t], vb_i[t] + 1,
                                      vb_header.type, vb_dwrite, buf)
                         /\ UNCHANGED <<vb_ret, vb_op, vb_pos, vb_bufsz,
                                        vb_lastw, vb_lastr>>
                    ELSE /\ VbReturn(t, VbCount(vb_pos[t], vb_bufsz[t]),
                                     buf)
                         /\ UNCHANGED <<vb_header, vb_dwrite, vb_data,
                                        avail_idx, vb_i, vb_pub>>

\* the device serves the published request as the header and descriptors
\* say when it looks at them, and raises the interrupt: vioblk_isr
\* (447-457) broadcasts vioblk_buffer_condition.
vioblk_isr ==
    /\ avail_idx # used_idx
    /\ UNCHANGED nonVioblkVars
    /\ LET off == vb_header.sector * VIOBLK_BLKSZ IN
        /\ vb_data' = IF vb_header.type = VIRTIO_BLK_T_IN /\ vb_dwrite
                      THEN SubBytes(vb_disk, off, VIOBLK_BLKSZ)
                      ELSE vb_data
        /\ vb_disk' = IF vb_header.type = VIRTIO_BLK_T_OUT
                      THEN StoreBytes(vb_disk, off, vb_data)
                      ELSE vb_disk
    /\ used_idx' = used_idx + 1
    /\ vb_woken' = [u \in VioblkThreads |->
                       IF vb_pc[u] = "vb_wait" THEN TRUE ELSE vb_woken[u]]
    /\ UNCHANGED <<vb_header, vb_dwrite, avail_idx, vioblk_lock, vb_pc,
                   vb_op, vb_pos, vb_bufsz, vb_i, vb_buf, vb_ret, vb_pub,
                   vb_single, vb_lastw, vb_lastr>>

NextVioblk ==
    \/ vioblk_readat \/ vioblk_writeat
    \/ vb_acq \/ vb_wait
    \/ vioblk_isr

\* a single caller never waits for the lock
NextVioblkSingle ==
    \/ vioblk_readat \/ vioblk_writeat
    \/ vb_wait
    \/ vioblk_isr

\* ========================================================= file system
\* ktfs.c.  One caller at a time: an action is a whole call.  A block is a
\* row of KTFS_BLKSZ cells; a cell holds a directory entry, a block number
\* or a data byte, so that KTFS_DENSZ, the size of a block number and a
\* byte are one cell each.  The cache writes a dirty block to the device
\* when it is released (cache.c:149), so the calls act on the disk image.
KtNames == {"a", "b", "c"}
KtRoots == {0, 1}                \* root directory inode numbers tried
BYTE_SIZE == 8
MAX_FILES == 95
KTFS_DENSZ == 1
DIR_SIZE == KTFS_BLKSZ \div KTFS_DENSZ
KTFS_BLKS_PER_INDIRECT == KTFS_BLKSZ
KTFS_BLKS_PER_DINDIRECT == KTFS_BLKS_PER_INDIRECT * KTFS_BLKS_PER_INDIRECT
KTFS_NUM_DINDIRECT_BLOCKS == 2
NBits == BYTE_SIZE * BITMAP_BYTES
DataBlocks == 0 .. NBits - 1
Inodes == 0 .. INODES_PER_BLK - 1
DirectIdx == 0 .. KTFS_NUM_DIRECT_DATA_BLOCKS - 1
\* global_datablock_0 (332) with one bitmap block and one inode block
global_datablock_0 == 1 + 1 + 1
\* the bits of the superblock, the bitmap block and the inode block
MetaBits == 0 .. global_datablock_0 - 1
ENODATABLKS == 0 - 1             \* the result of a failed allocation

ZeroCell == [name |-> "", num |-> 0]
NumCell(v) == [name |-> IF v = 0 THEN "" ELSE "?", num |-> v]
EntryCell(nm, ino) == [name |-> nm, num |-> ino]
ZeroBlock == [j \in 0 .. KTFS_BLKSZ - 1 |-> ZeroCell]
ZeroInode ==
    [size |-> 0, block |-> [i \in DirectIdx |-> 0], indirect |-> 0,
     dindirect |-> [i \in 0 .. KTFS_NUM_DINDIRECT_BLOCKS - 1 |-> 0]]
KtNoFile == [inode |-> 0, fi |-> ZeroInode, name_pos |-> 0, open |-> FALSE,
             held |-> FALSE]
NoLast == [op |-> "none", name |-> "", ret |-> RetOk(0), arg |-> 0,
           size0 |-> 0, bits0 |-> 0, data |-> <<>>, sent |-> <<>>]

\* the file system as one value: the disk image and filesetup
KtState ==
    [sb |-> kt_root, bm |-> kt_bitmap, ino |-> kt_inodes, blk |-> kt_blocks,
     root |-> root_dir_inode, ibm |-> inode_bitmap, icnt |-> inodecount,
     names |-> kt_names, cnt |-> kt_count, file |-> kt_file,
     ret |-> RetOk(0)]

KtSet(S) ==
    /\ kt_root' = S.sb
    /\ kt_bitmap' = S.bm
    /\ kt_inodes' = S.ino
    /\ kt_blocks' = S.blk
    /\ root_dir_inode' = S.root
    /\ inode_bitmap' = S.ibm
    /\ inodecount' = S.icnt
    /\ kt_names' = S.names
    /\ kt_count' = S.cnt
    /\ kt_file' = S.file

\* A formatted device that holds the first n of the files a, b, c, empty:
\* what n calls of ktfs_create leave on a device whose root directory is
\* inode 0, and the same with the inodes moved for another root.
KtImageNames == <<"a", "b", "c">>
KtImageInode(r, k) == IF k - 1 < r THEN k - 1 ELSE k
KtImageDirBlock(i) == NBits - 1 - i
KtImageRoot(n) ==
    [ZeroInode EXCEPT
        !.size = n * KTFS_DENSZ,
        !.block = [i \in DirectIdx |->
                      IF i * DIR_SIZE < n THEN KtImageDirBlock(i) ELSE 0]]
KtfsInit ==
    \E n \in 0 .. Len(KtImageNames) :
        /\ kt_bitmap = MetaBits \cup
               {KtImageDirBlock(i) : i \in {j \in DirectIdx : j * DIR_SIZE < n}}
        /\ kt_inodes = [i \in Inodes |->
                           IF i = kt_root THEN KtImageRoot(n) ELSE ZeroInode]
        /\ kt_blocks =
               [d \in DataBlocks |->
                   [j \in 0 .. KTFS_BLKSZ - 1 |->
                       IF \E k \in 1 .. n :
                              /\ d = KtImageDirBlock((k - 1) \div DIR_SIZE)
                              /\ j = (k - 1) % DIR_SIZE
                       THEN LET k == CHOOSE k \in 1 .. n :
                                        /\ d = KtImageDirBlock(
                                                   (k - 1) \div DIR_SIZE)
                                        /\ j = (k - 1) % DIR_SIZE
                            IN  EntryCell(KtImageNames[k],
                                          KtImageInode(kt_root, k))
                       ELSE ZeroCell]]
        /\ root_dir_inode = KtImageRoot(n)
        /\ inode_bitmap =
               [i \in Inodes |->
                   IF i = kt_root
                      \/ \E k \in 1 .. n : i = KtImageInode(kt_root, k)
                   THEN 1 ELSE 0]
        /\ inodecount = n
    /\ kt_names = [k \in 0 .. Cardinality(KtNames) - 1 |->
                      [name |-> "", fio |-> ""]]
    /\ kt_count = 0
    /\ kt_file = [f \in KtNames |-> KtNoFile]
    /\ kt_ops = 0
    /\ kt_last = NoLast

\* a block of the data region; past the device the bytes read are zero
BlockAt(S, d) == IF d \in DataBlocks THEN S.blk[d] ELSE ZeroBlock
\* a cell of a block is stored; past the device nothing is
StoreCell(S, d, j, c) ==
    IF d \in DataBlocks /\ j \in 0 .. KTFS_BLKSZ - 1
    THEN [S EXCEPT !.blk[d][j] = c] ELSE S
InodeAt(S, i) == IF i \in Inodes THEN S.ino[i] ELSE ZeroInode

\* allocate_open_block (1324-1352): bytes upwards, bits 7 down to 0
AllocRank(b) ==
    (b \div BYTE_SIZE) * BYTE_SIZE + (BYTE_SIZE - 1 - (b % BYTE_SIZE))
FreeBits(bm) == (0 .. NBits - 1) \ bm
allocate_open_block(bm) ==
    IF FreeBits(bm) = {} THEN ENODATABLKS
    ELSE CHOOSE b \in FreeBits(bm) :
            \A c \in FreeBits(bm) : AllocRank(b) <= AllocRank(c)
\* free_block (1310-1322)
free_block(bm, block_num) == bm \ {block_num}

\* blocknum (516-596) and inodeidxblocknum (1233-1308), less
\* global_datablock_0: the data block number of block idx of an inode
inodeidxblocknum(S, inode, idx) ==
    IF idx < KTFS_NUM_DIRECT_DATA_BLOCKS
    THEN inode.block[idx]
    ELSE IF idx < KTFS_BLKS_PER_INDIRECT + KTFS_NUM_DIRECT_DATA_BLOCKS
    THEN BlockAt(S, inode.indirect)[idx - KTFS_NUM_DIRECT_DATA_BLOCKS].num
    ELSE LET n0 == idx - KTFS_NUM_DIRECT_DATA_BLOCKS
                       - KTFS_BLKS_PER_INDIRECT
             di == IF n0 < KTFS_BLKS_PER_DINDIRECT THEN 0 ELSE 1
             newidx == IF di = 0 THEN n0 ELSE n0 - KTFS_BLKS_PER_DINDIRECT
             indirectidx == newidx \div KTFS_BLKS_PER_INDIRECT
             indirectoffset == newidx % KTFS_BLKS_PER_INDIRECT
             indirectnum ==
                 IF indirectidx < KTFS_BLKS_PER_INDIRECT
                 THEN BlockAt(S, inode.dindirect[di])[indirectidx].num
                 ELSE 0
         IN  BlockAt(S, indirectnum)[indirectoffset].num

\* the cell of slot j of directory block i
DirCell(S, i, j) == BlockAt(S, S.root.block[i])[j]
\* the slots whose name compares equal (343, 973, 1092): every slot of
\* every direct block is compared, whatever the size of the directory
DirMatches(S, name) ==
    {p \in DirectIdx \X (0 .. DIR_SIZE - 1) :
        DirCell(S, p[1], p[2]).name = name}
\* ktfs_open returns at the first match (337-397)
FirstMatch(S, name) ==
    CHOOSE p \in DirMatches(S, name) :
        \A q \in DirMatches(S, name) :
            p[1] * DIR_SIZE + p[2] <= q[1] * DIR_SIZE + q[2]
\* ktfs_delete (1085-1102): the break leaves only the inner loop, so the
\* match kept is the first of the last block that has one
DeleteMatch(S, name) ==
    CHOOSE p \in DirMatches(S, name) :
        \A q \in DirMatches(S, name) :
            q[1] < p[1] \/ (q[1] = p[1] /\ p[2] <= q[2])
\* the slots of the open-file table that hold a name (346-352, 1108-1111)
OpenSlots(S, name) == {k \in 0 .. S.cnt - 1 : S.names[k].name = name}
MinOf(s) == CHOOSE x \in s : \A y \in s : x <= y

\* memcpy(data + inode_idx, &root_dir_inode, ...) (1043): the inode is
\* stored at BYTE inode_idx of the inode block.  For inode_idx 0 that is
\* the root inode.  For inode_idx 1 (little endian, words below 2^24) the
\* bytes 1..31 of inode 0 become the bytes 0..30 of the root inode, so each
\* word of inode 0 is the root's word times 256 (the size keeps its low
\* byte), and byte 0 of inode 1, the low byte of the root's size on disk,
\* becomes the high byte of the root's last word, which is 0.
ShiftedWord(w) == w * 256
StoreRootAtByte(S) ==
    IF S.sb = 0
    THEN [S EXCEPT !.ino[0] = S.root]
    ELSE [S EXCEPT
            !.ino[0] =
                [size |-> (S.ino[0].size % 256) + ShiftedWord(S.root.size),
                 block |-> [i \in DirectIdx |->
                               ShiftedWord(S.root.block[i])],
                 indirect |-> ShiftedWord(S.root.indirect),
                 dindirect |->
                     [i \in 0 .. KTFS_NUM_DINDIRECT_BLOCKS - 1 |->
                         ShiftedWord(S.root.dindirect[i])]],
            !.ino[1].size = @ - (@ % 256)]

\* ktfs_mount (223-312): the root inode is read from its slot, the inodes
\* of the directory entries below the size are marked
ktfs_mount(S) ==
    LET root == InodeAt(S, S.sb)
        nent == root.size \div KTFS_DENSZ
        full == nent >= KTFS_NUM_DIRECT_DATA_BLOCKS * DIR_SIZE
        S1 == [S EXCEPT !.root = root, !.cnt = 0]
        used == {DirCell(S1, k \div DIR_SIZE, k % DIR_SIZE).num :
                    k \in 0 .. (IF full
                                THEN KTFS_NUM_DIRECT_DATA_BLOCKS * DIR_SIZE
                                ELSE nent) - 1}
    IN  [S1 EXCEPT
            !.ibm = [i \in Inodes |->
                        IF i = S.sb \/ i \in used THEN 1 ELSE 0],
            !.icnt = IF full THEN S.icnt ELSE nent,
            !.ret = RetOk(0)]

\* ktfs_close (404-424): the NAMES of the last slot and of slot name_pos
\* change places; the fio pointers of the slots and the name_pos of the
\* other file stay
KtClose(S, f) ==
    LET np == S.file[f].name_pos
        lastn == S.names[S.cnt - 1].name
    IN  [S EXCEPT !.names[S.cnt - 1].name = S.names[np].name,
                  !.names[np].name = lastn,
                  !.cnt = S.cnt - 1,
                  !.file[f].open = FALSE]

\* ktfs_open (324-402)
KtOpen(S, name) ==
    IF DirMatches(S, name) = {}
    THEN [S EXCEPT !.ret = RetErr("ENOENT")]
    ELSE LET p == FirstMatch(S, name)
             e == DirCell(S, p[1], p[2])
         IN  IF OpenSlots(S, e.name) # {}
             THEN [S EXCEPT !.ret = RetErr("EBUSY")]
             ELSE [S EXCEPT
                     !.file[name] = [inode |-> e.num,
                                     fi |-> InodeAt(S, e.num),
                                     name_pos |-> S.cnt, open |-> TRUE,
                                     held |-> TRUE],
                     !.names[S.cnt] = [name |-> e.name, fio |-> name],
                     !.cnt = S.cnt + 1,
                     !.ret = RetOk(0)]

\* the first free inode of the in-memory bitmap (1024-1032), 0 if none
FirstFreeInode(S) ==
    IF \E i \in Inodes : S.ibm[i] = 0
    THEN MinOf({i \in Inodes : S.ibm[i] = 0}) ELSE 0

\* ktfs_create (957-1053)
KtCreate(S, name) ==
    LET num_files == S.root.size \div KTFS_DENSZ
        blk_idx == num_files \div DIR_SIZE
        dir_idx == num_files % DIR_SIZE
        new_block == allocate_open_block(S.bm)
        \* 995-1015: a directory block is allocated and the root inode is
        \* stored in its slot
        S1 == IF dir_idx = 0
              THEN [S EXCEPT !.bm = @ \cup {new_block},
                             !.root.block[blk_idx] = new_block,
                             !.ino[S.sb] =
                                 [S.root EXCEPT !.block[blk_idx] = new_block]]
              ELSE S
        inodeidx == FirstFreeInode(S1)
        S2 == StoreCell([S1 EXCEPT !.ibm[inodeidx] = 1],
                        S1.root.block[blk_idx], dir_idx,
                        EntryCell(name, inodeidx))
        S3 == StoreRootAtByte([S2 EXCEPT !.root.size = @ + KTFS_DENSZ])
    IN  IF DirMatches(S, name) # {}
        THEN [S EXCEPT !.ret = RetErr("EBUSY")]
        ELSE IF ~(num_files < MAX_FILES /\ S.icnt < INODES_PER_BLK)
        THEN [S EXCEPT !.ret = RetErr("EMFILE")]
        ELSE IF dir_idx = 0 /\ new_block = ENODATABLKS
        THEN [S EXCEPT !.ret = RetErr("ENODATABLKS")]
        ELSE [S3 EXCEPT !.icnt = @ + 1, !.ret = RetOk(0)]

\* the blocks ktfs_delete frees for an inode (1126-1162): the data blocks
\* below the size, the indirect block, and for each double-indirect block
\* every nonzero number it holds and the block itself
FreedBlocks(S, inode) ==
    LET n == (inode.size + KTFS_BLKSZ - 1) \div KTFS_BLKSZ
    IN  {inodeidxblocknum(S, inode, i) : i \in 0 .. n - 1}
        \cup (IF n > KTFS_NUM_DIRECT_DATA_BLOCKS /\ inode.indirect # 0
              THEN {inode.indirect} ELSE {})
        \cup (IF n > KTFS_NUM_DIRECT_DATA_BLOCKS + KTFS_BLKS_PER_INDIRECT
              THEN UNION {
                     {inode.dindirect[i]} \cup
                     {BlockAt(S, inode.dindirect[i])[j].num :
                         j \in {k \in 0 .. KTFS_BLKS_PER_INDIRECT - 1 :
                                 BlockAt(S, inode.dindirect[i])[k].num # 0}}
                     : i \in {k \in 0 .. KTFS_NUM_DINDIRECT_BLOCKS - 1 :
                                 inode.dindirect[k] # 0}}
              ELSE {})

\* ktfs_delete (1073-1230) of a name found in the directory
KtDeleteFound(S, name) ==
    LET p == DeleteMatch(S, name)
        entry == DirCell(S, p[1], p[2])
        \* 1106-1114: the file in the first table slot with the name is
        \* closed through the fio pointer of that slot
        S1 == IF OpenSlots(S, entry.name) # {}
              THEN KtClose(S, S.names[MinOf(OpenSlots(S, entry.name))].fio)
              ELSE S
        inodeidx == entry.num
        inode == InodeAt(S1, inodeidx)
        S2 == [S1 EXCEPT !.bm = @ \ FreedBlocks(S1, inode)]
        num_files == S2.root.size \div KTFS_DENSZ
        last_blk_idx == (num_files - 1) \div DIR_SIZE
        last_entry_idx == (num_files - 1) % DIR_SIZE
        last == DirCell(S2, last_blk_idx, last_entry_idx)
        \* 1190-1194: the entry is overwritten with the last one
        S3 == StoreCell(S2, S2.root.block[p[1]], p[2], last)
        \* 1196-1203: the last entry is zeroed if it is in another block
        S4 == IF p[1] # last_blk_idx
              THEN StoreCell(S3, S3.root.block[last_blk_idx],
                             last_entry_idx, ZeroCell)
              ELSE S3
        S5 == IF inodeidx \in Inodes
              THEN [S4 EXCEPT !.ibm[inodeidx] = 0,
                              !.ino[inodeidx] = ZeroInode]
              ELSE S4
        S6 == [S5 EXCEPT !.root.size = @ - KTFS_DENSZ]
    IN  [S6 EXCEPT !.ino[S.sb] = S6.root, !.ret = RetOk(0)]

KtDelete(S, name) ==
    IF DirMatches(S, name) = {}
    THEN [S EXCEPT !.ret = RetErr("ENOENT")]
    ELSE KtDeleteFound(S, name)

\* write_inode_to_disk (857-870)
write_inode_to_disk(S, f) ==
    IF S.file[f].inode \in Inodes
    THEN [S EXCEPT !.ino[S.file[f].inode] = S.file[f].fi]
    ELSE S

\* an allocation inside add_new_inode_datablk: the state with the bit set
\* and the number in ret, or ENODATABLKS in ret
KtAlloc(S) ==
    LET b == allocate_open_block(S.bm)
    IN  IF b = ENODATABLKS THEN [S EXCEPT !.ret = RetErr("ENODATABLKS")]
        ELSE [S EXCEPT !.bm = @ \cup {b}, !.ret = RetOk(b)]
Failed(S) == S.ret.err # ""

\* add_new_inode_datablk (721-855)
add_new_inode_datablk(S, f, old_idx) ==
    LET new_idx == old_idx + 1
        A1 == KtAlloc(S)
    IN
    IF new_idx < KTFS_NUM_DIRECT_DATA_BLOCKS
    THEN IF Failed(A1) THEN A1
         ELSE write_inode_to_disk(
                  [A1 EXCEPT !.file[f].fi.block[new_idx] = A1.ret.val], f)
    ELSE IF new_idx < KTFS_BLKS_PER_INDIRECT + KTFS_NUM_DIRECT_DATA_BLOCKS
    THEN \* 737-762
         LET S1 == IF old_idx < KTFS_NUM_DIRECT_DATA_BLOCKS
                   THEN IF Failed(A1) THEN A1
                        ELSE write_inode_to_disk(
                                 [A1 EXCEPT !.file[f].fi.indirect =
                                                A1.ret.val], f)
                   ELSE [S EXCEPT !.ret = RetOk(0)]
             A2 == KtAlloc(S1)
         IN  IF Failed(S1) THEN S1
             ELSE IF Failed(A2) THEN A2
             ELSE StoreCell(A2, A2.file[f].fi.indirect,
                            new_idx - KTFS_NUM_DIRECT_DATA_BLOCKS,
                            NumCell(A2.ret.val))
    ELSE \* 763-853
         LET z0 == new_idx - KTFS_NUM_DIRECT_DATA_BLOCKS
                           - KTFS_BLKS_PER_INDIRECT
             S1 == IF z0 = 0 \/ z0 = KTFS_BLKS_PER_DINDIRECT
                   THEN IF Failed(A1) THEN A1
                        ELSE write_inode_to_disk(
                                 [A1 EXCEPT
                                     !.file[f].fi.dindirect[
                                         IF z0 = 0 THEN 0 ELSE 1] =
                                             A1.ret.val], f)
                   ELSE [S EXCEPT !.ret = RetOk(0)]
             di == IF z0 < KTFS_BLKS_PER_DINDIRECT THEN 0 ELSE 1
             z == IF di = 0 THEN z0 ELSE z0 - KTFS_BLKS_PER_DINDIRECT
             indirectidx == z \div KTFS_BLKS_PER_INDIRECT
             indirectoffset == z % KTFS_BLKS_PER_INDIRECT
             A2 == KtAlloc(S1)
             S2 == IF indirectoffset = 0
                   THEN IF Failed(A2) THEN A2
                        ELSE StoreCell(A2, A2.file[f].fi.dindirect[di],
                                       indirectidx, NumCell(A2.ret.val))
                   ELSE S1
             indirectnum ==
                 IF indirectidx < KTFS_BLKS_PER_INDIRECT
                 THEN BlockAt(S2, S2.file[f].fi.dindirect[di])[
                          indirectidx].num
                 ELSE 0
             A3 == KtAlloc(S2)
         IN  IF Failed(S1) THEN S1
             ELSE IF Failed(S2) THEN S2
             ELSE IF Failed(A3) THEN A3
             ELSE StoreCell(A3, indirectnum, indirectoffset,
                            NumCell(A3.ret.val))

\* ROUND_UP of the size to a block (644)
RoundUpBlk(n) == ((n + KTFS_BLKSZ - 1) \div KTFS_BLKSZ) * KTFS_BLKSZ

\* the size is set and the inode written back (647-655, 681-691)
SetSizeAndStore(S, f, end) ==
    [write_inode_to_disk([S EXCEPT !.file[f].fi.size = end], f)
        EXCEPT !.ret = RetOk(0)]

\* the loop of IOCTL_SETEND (642-680).  ret is declared without a value
\* (659) and tested (674) after the branch for an empty file, which does
\* not assign it: garbage says whether that read compares equal to
\* -ENODATABLKS.
RECURSIVE SetEndLoop(_, _, _, _)
SetEndLoop(S, f, end, garbage) ==
    LET size == RoundUpBlk(S.file[f].fi.size)
        S0 == [S EXCEPT !.file[f].fi.size = size]
        A == KtAlloc(S0)
        S1 == IF size = 0
              THEN IF Failed(A) THEN A
                   ELSE write_inode_to_disk(
                            [A EXCEPT !.file[f].fi.block[0] = A.ret.val], f)
              ELSE add_new_inode_datablk(S0, f, (size - 1) \div KTFS_BLKSZ)
    IN  IF ~(S.file[f].fi.size < end) THEN SetSizeAndStore(S, f, end)
        ELSE IF end < size THEN SetSizeAndStore(S0, f, end)
        ELSE IF Failed(S1) THEN S1
        ELSE IF size = 0 /\ garbage
        THEN [S1 EXCEPT !.ret = RetErr("ENODATABLKS")]
        ELSE SetEndLoop(
                 [S1 EXCEPT !.file[f].fi.size =
                                ((size \div KTFS_BLKSZ) + 1) * KTFS_BLKSZ],
                 f, end, garbage)

\* ktfs_cntl, IOCTL_SETEND (630-708)
KtSetEnd(S, f, end, garbage) ==
    IF end = S.file[f].fi.size THEN [S EXCEPT !.ret = RetOk(0)]
    ELSE IF end > S.file[f].fi.size THEN SetEndLoop(S, f, end, garbage)
    ELSE [S EXCEPT !.ret = RetErr("EINVAL")]

\* the cells [pos, pos + len) of a file, as ktfs_readat (437-514) and
\* ktfs_writeat (883-954) walk them: block number and offset of byte k
FileBlock(S, f, k) ==
    inodeidxblocknum(S, S.file[f].fi, k \div KTFS_BLKSZ)
\* the count both calls transfer, or the error they return
KtCount(S, f, pos, len, reading) ==
    IF ~S.file[f].open THEN RetErr("EIO")
    ELSE IF len = 0 THEN RetOk(0)
    ELSE IF reading /\ S.file[f].fi.size = 0 THEN RetOk(0)
    ELSE IF pos >= S.file[f].fi.size THEN RetErr("EINVAL")
    ELSE IF pos + len > S.file[f].fi.size
    THEN RetOk(S.file[f].fi.size - pos)
    ELSE RetOk(len)

\* ktfs_readat: the bytes copied to buf
KtReadBytes(S, f, pos, len) ==
    LET r == KtCount(S, f, pos, len, TRUE)
    IN  [k \in 1 .. r.val |->
            BlockAt(S, FileBlock(S, f, pos + k - 1))[
                (pos + k - 1) % KTFS_BLKSZ].num]

\* ktfs_writeat: the bytes of buf are stored block by block
RECURSIVE KtStoreBytes(_, _, _, _, _)
KtStoreBytes(S, f, pos, buf, k) ==
    IF k > Len(buf) THEN S
    ELSE KtStoreBytes(
             StoreCell(S, FileBlock(S, f, pos + k - 1),
                       (pos + k - 1) % KTFS_BLKSZ, NumCell(buf[k])),
             f, pos, buf, k + 1)
KtWriteat(S, f, pos, buf) ==
    LET r == KtCount(S, f, pos, Len(buf), FALSE)
    IN  [KtStoreBytes(S, f, pos, SubBytes(buf, 0, r.val), 1)
            EXCEPT !.ret = r]

\* ------------------------------------------------ file system calls
KtEnds == 0 .. MaxEnd
KtBufs == {<<7>>, <<7, 8, 9>>}
\* the call is done: the state it leaves, and what is kept of the call (for
\* a set-end also the size and the number of allocated blocks before it)
KtDone(S, op, name, arg, got, sent) ==
    /\ kt_ops < MaxFsOps
    /\ kt_ops' = kt_ops + 1
    /\ KtSet(S)
    /\ kt_last' = [op |-> op, name |-> name, ret |-> S.ret, arg |-> arg,
                   size0 |-> IF op = "setend" THEN kt_file[name].fi.size
                             ELSE 0,
                   bits0 |-> IF op = "setend" THEN Cardinality(kt_bitmap)
                             ELSE 0,
                   data |-> got, sent |-> sent]
    /\ UNCHANGED nonKtfsVars

kt_create ==
    \E name \in KtNames :
        /\ name # ""                 \* 960-963
        /\ KtDone(KtCreate(KtState, name), "create", name, 0, <<>>, <<>>)

\* a stale name found in an empty directory makes ktfs_delete index
\* root_dir_inode.block with (0 - 1) / DIR_SIZE (1175-1181); such a call
\* is not followed
kt_delete ==
    \E name \in KtNames :
        /\ DirMatches(KtState, name) # {} => root_dir_inode.size > 0
        /\ KtDone(KtDelete(KtState, name), "delete", name, 0, <<>>, <<>>)

\* fsopen; the caller holds at most one endpoint per name
kt_open ==
    \E name \in KtNames :
        /\ ~kt_file[name].held
        /\ KtDone(KtOpen(KtState, name), "open", name, 0, <<>>, <<>>)

\* the holder closes its endpoint: ioclose reaches ktfs_close (404-424)
kt_close ==
    \E f \in KtNames :
        /\ kt_file[f].held
        /\ kt_count > 0
        /\ KtDone([KtClose(KtState, f) EXCEPT !.file[f].held = FALSE,
                                              !.ret = RetOk(0)],
                  "close", f, 0, <<>>, <<>>)

\* ioctl(IOCTL_SETEND) on a held endpoint (630-708)
kt_setend ==
    \E f \in KtNames, end \in KtEnds, garbage \in BOOLEAN :
        /\ kt_file[f].held
        /\ garbage => kt_file[f].fi.size = 0 /\ end > 0
        /\ kt_ops < MaxDataOps
        /\ KtDone(KtSetEnd(KtState, f, end, garbage), "setend", f, end,
                  <<>>, <<>>)

\* ktfs_writeat (883-954)
kt_writeat ==
    \E f \in KtNames, pos \in KtEnds, buf \in KtBufs :
        /\ kt_file[f].held
        /\ pos + Len(buf) <= MaxEnd
        /\ kt_ops < MaxDataOps
        /\ KtDone(KtWriteat(KtState, f, pos, buf), "write", f, pos, <<>>,
                  buf)

\* ktfs_readat (437-514)
kt_readat ==
    \E f \in KtNames, pos \in KtEnds, len \in {Len(b) : b \in KtBufs} :
        /\ kt_file[f].held
        /\ pos + len <= MaxEnd
        /\ kt_ops < MaxDataOps
        /\ KtDone([KtState EXCEPT
                      !.ret = KtCount(KtState, f, pos, len, TRUE)],
                  "read", f, pos, KtReadBytes(KtState, f, pos, len), <<>>)

\* fsmount again on the same device (223-312)
kt_mount ==
    /\ \A f \in KtNames : ~kt_file[f].held
    /\ kt_ops < MaxDataOps
    /\ KtDone(ktfs_mount(KtState), "mount", "a", 0, <<>>, <<>>)

NextKtfs ==
    \/ kt_create \/ kt_delete \/ kt_open \/ kt_close
    \/ kt_setend \/ kt_writeat \/ kt_readat \/ kt_mount

\* ===================================================== cache recency
\* One thread that gets a block and releases it before it gets the next,
\* on a cache of LruSlots slots.
LruSlotSet == 0 .. (LruSlots - 1)
LruBlockSet == 1 .. LruBlocks
\* the least element of S: the for loops stop at the first match
LruFirst(S) == CHOOSE i \in S : \A j \in S : i <= j
\* cache_get_block (112-133): the first slot with the least assign_num
LruVictim(rank) ==
    LruFirst({i \in LruSlotSet : \A j \in LruSlotSet : rank[i] <= rank[j]})
\* cache_release_block (157-182): the ranks after the release of slot i
LruRelease(rank, i) ==
    LET num_released_blocks ==
            (IF rank[i] = 0 THEN 1 ELSE 0)
              + Cardinality({j \in LruSlotSet : rank[j] # 0})
    IN IF rank[i] = num_released_blocks THEN rank
       ELSE IF rank[i] = 0
       THEN [rank EXCEPT ![i] = num_released_blocks]
       ELSE [j \in LruSlotSet |->
                IF j = i THEN num_released_blocks
                ELSE IF rank[j] > 1 THEN rank[j] - 1
                ELSE rank[j]]

\* create_cache (60-65)
LruInit ==
    /\ lru_id = [i \in LruSlotSet |-> 0 - 1]
    /\ lru_rank = [i \in LruSlotSet |-> 0]
    /\ lru_stamp = [i \in LruSlotSet |-> 0]
    /\ lru_clock = 0
    /\ lru_held = 0 - 1
    /\ lru_victim = 0 - 1
    /\ lru_gets = 0
    /\ lru_rderr = FALSE
    /\ lru_ret = 0

\* cache_get_block (74-134) of block b: a hit, else the first empty slot,
\* else the first slot with the least assign_num.  On a miss ioreadat is
\* called and its result rd is dropped (100, 124): block_id is set and 0 is
\* returned whatever it was.  The slot, the block numbers, the victim and
\* whether the read failed.
LruGet(b, rd) ==
    LET hits == {i \in LruSlotSet : lru_id[i] = b}
        empty == {i \in LruSlotSet : lru_id[i] = 0 - 1}
        slot == IF hits # {} THEN LruFirst(hits)
                ELSE IF empty # {} THEN LruFirst(empty)
                ELSE LruVictim(lru_rank)
    IN  [slot |-> slot,
         id |-> [lru_id EXCEPT ![slot] = b],
         victim |-> IF hits = {} /\ empty = {} THEN slot ELSE 0 - 1,
         rderr |-> hits = {} /\ rd < 0,
         ret |-> 0]

\* what ioreadat on the backing endpoint returns: the block size, or an
\* error of the device
LruReads == {1, 0 - 5}

lru_get ==
    /\ UNCHANGED nonLruVars
    /\ lru_held = 0 - 1 /\ lru_gets < MaxLruGets
    /\ \E b \in LruBlockSet, rd \in LruReads :
        /\ lru_held' = LruGet(b, rd).slot
        /\ lru_id' = LruGet(b, rd).id
        /\ lru_victim' = LruGet(b, rd).victim
        /\ lru_rderr' = LruGet(b, rd).rderr
        /\ lru_ret' = LruGet(b, rd).ret
    /\ lru_gets' = lru_gets + 1
    /\ UNCHANGED <<lru_rank, lru_stamp, lru_clock>>

\* cache_release_block (137-188) of the buffer the thread holds
lru_release ==
    /\ UNCHANGED nonLruVars
    /\ lru_held # 0 - 1
    /\ lru_rank' = LruRelease(lru_rank, lru_held)
    /\ lru_clock' = lru_clock + 1
    /\ lru_stamp' = [lru_stamp EXCEPT ![lru_held] = lru_clock + 1]
    /\ lru_held' = 0 - 1
    /\ UNCHANGED <<lru_id, lru_victim, lru_gets, lru_rderr, lru_ret>>

\* ktfs_readat (437-513) of one byte of block b of an open file:
\* cache_get_block, whose result is not looked at (500), memcpy from the
\* buffer, cache_release_block, and the count is returned
lru_readat ==
    /\ UNCHANGED nonLruVars
    /\ lru_held = 0 - 1 /\ lru_gets < MaxLruGets
    /\ \E b \in LruBlockSet, rd \in LruReads :
        /\ lru_id' = LruGet(b, rd).id
        /\ lru_victim' = LruGet(b, rd).victim
        /\ lru_rderr' = LruGet(b, rd).rderr
        /\ lru_rank' = LruRelease(lru_rank, LruGet(b, rd).slot)
        /\ lru_stamp' = [lru_stamp EXCEPT ![LruGet(b, rd).slot] = lru_clock + 1]
    /\ lru_clock' = lru_clock + 1
    /\ lru_gets' = lru_gets + 1
    /\ lru_ret' = 1
    /\ UNCHANGED lru_held

NextLru == lru_get \/ lru_release \/ lru_readat

\* ==================================================== seekable adapter
\* A seekable adapter made by create_seekable_io (584-609) over the block
\* device: pos 0, end and blksz those of the device.
SeekSizes == 0 .. MaxBufsz
\* bufsz &= ~(sio->blksz - 1) (746, 771): blksz is a power of two (596)
SeekTruncate(n) == (n \div VIOBLK_BLKSZ) * VIOBLK_BLKSZ
\* ioreadat / iowriteat of the device (vioblk.c 301-372, 374-445): the
\* count returned
BkgCount(pos, n) ==
    IF pos = VbEnd \/ n = 0 THEN RetOk(0)
    ELSE IF pos > VbEnd THEN RetErr("EINVAL")
    ELSE RetOk(VbCount(pos, n))
\* the bytes the device moved: whole blocks
BkgMoved(pos, n) ==
    IF pos >= VbEnd \/ n = 0 THEN 0 ELSE VbNumBlocks(pos, n) * VIOBLK_BLKSZ

SeekInit ==
    /\ sio_pos = 0 /\ sio_end = VbEnd
    /\ sk_disk = [i \in 0 .. (VbEnd - 1) |-> 0]
    /\ sk_op = "none" /\ sk_req = 0 /\ sk_ret = RetOk(0) /\ sk_moved = 0

\* seekio_read (729-753)
seekio_read ==
    /\ UNCHANGED nonSeekVars
    /\ \E bufsz \in SeekSizes :
        LET clipped == IF sio_end - sio_pos < bufsz THEN sio_end - sio_pos
                       ELSE bufsz
            n == SeekTruncate(clipped)
            rcnt == BkgCount(sio_pos, n)
        IN  /\ sk_op' = "read" /\ sk_req' = bufsz
            /\ IF clipped = 0
               THEN sk_ret' = RetOk(0) /\ sk_moved' = 0 /\ UNCHANGED sio_pos
               ELSE IF clipped < VIOBLK_BLKSZ
               THEN /\ sk_ret' = RetErr("EINVAL") /\ sk_moved' = 0
                    /\ UNCHANGED sio_pos
               ELSE /\ sk_ret' = rcnt
                    /\ sk_moved' = BkgMoved(sio_pos, n)
                    /\ sio_pos' = sio_pos + rcnt.val
    /\ UNCHANGED <<sio_end, sk_disk>>

\* seekio_write (755-793); the bytes written all have value v
seekio_write ==
    /\ UNCHANGED nonSeekVars
    /\ \E len \in SeekSizes, v \in 0 .. 1 :
        LET n == SeekTruncate(len)
            wcnt == BkgCount(sio_pos, n)
            moved == BkgMoved(sio_pos, n)
        IN  /\ sk_op' = "write" /\ sk_req' = len
            /\ IF len = 0
               THEN /\ sk_ret' = RetOk(0) /\ sk_moved' = 0
                    /\ UNCHANGED <<sio_pos, sk_disk>>
               ELSE IF len < VIOBLK_BLKSZ
               THEN /\ sk_ret' = RetErr("EINVAL") /\ sk_moved' = 0
                    /\ UNCHANGED <<sio_pos, sk_disk>>
               ELSE IF sio_end - sio_pos < n
               THEN \* ioctl(bkgio, IOCTL_SETEND): vioblk_cntl has no such
                    \* command (vioblk.c 288-298)
                    /\ sk_ret' = RetErr("ENOTSUP") /\ sk_moved' = 0
                    /\ UNCHANGED <<sio_pos, sk_disk>>
               ELSE /\ sk_ret' = wcnt
                    /\ sk_moved' = moved
                    /\ sio_pos' = sio_pos + wcnt.val
                    /\ sk_disk' = [i \in 0 .. (VbEnd - 1) |->
                                      IF sio_pos <= i /\ i < sio_pos + moved
                                      THEN v ELSE sk_disk[i]]
    /\ UNCHANGED sio_end

\* seekio_cntl (689-727) with IOCTL_SETPOS
seekio_setpos ==
    /\ UNCHANGED nonSeekVars
    /\ \E p \in VbPositions :
        /\ sk_op' = "setpos" /\ sk_req' = p /\ sk_moved' = 0
        /\ IF p % VIOBLK_BLKSZ # 0 \/ p > sio_end
           THEN sk_ret' = RetErr("EINVAL") /\ UNCHANGED sio_pos
           ELSE sk_ret' = RetOk(0) /\ sio_pos' = p
    /\ UNCHANGED <<sio_end, sk_disk>>

NextSeek == seekio_read \/ seekio_write \/ seekio_setpos

\* ======================================================== system calls
\* The descriptors a process passes: one below 0, the slots of the table,
\* and one beyond it.  The endpoints are two devices.
NoIo == "NULL"
SysSlots == 0 .. (PROCESS_IOMAX - 1)
SysFds == (0 - 1) .. PROCESS_IOMAX
SysDevices == {"dev0", "dev1"}
\* the first free slot of the table, or PROCESS_IOMAX
FirstFreeSlot ==
    IF \A i \in SysSlots : iotab[i] # NoIo THEN PROCESS_IOMAX
    ELSE CHOOSE i \in SysSlots :
             iotab[i] = NoIo /\ \A j \in SysSlots : iotab[j] = NoIo => i <= j

SysInit ==
    /\ iotab = [i \in SysSlots |-> NoIo]
    /\ sys_refcnt = [e \in SysDevices |-> 0]
    /\ sys_halt = "run"
    /\ sys_op = "none" /\ sys_fd = 0 /\ sys_new = 0
    /\ sys_ret = RetOk(0)

SysStep == sys_halt = "run" /\ UNCHANGED nonSysVars

\* current_process()->iotab[fd] passed to a function of io.c that starts
\* with assert(io != NULL) (io.c 452, 497, 551): an empty slot stops the kernel, and
\* for fd beyond the table the pointer is whatever lies behind the table
SysDeref(fd) ==
    IF fd \in SysSlots
    THEN IF iotab[fd] = NoIo THEN sys_halt' = "assert"
         ELSE sys_halt' = "run"
    ELSE sys_halt' \in {"assert", "wild"}

\* sysdevopen (226-262) of a device that is not open
sysdevopen ==
    /\ SysStep
    /\ \E fd \in SysFds, d \in SysDevices :
        /\ sys_refcnt[d] = 0
        /\ sys_op' = "devopen" /\ sys_fd' = fd
        /\ LET slot == IF fd >= 0 THEN fd ELSE FirstFreeSlot
           IN  IF fd >= 0 /\ ~(fd < PROCESS_IOMAX /\ iotab[fd] = NoIo)
               THEN sys_ret' = RetErr("EBADFD")
                    /\ UNCHANGED <<iotab, sys_refcnt>>
               ELSE IF slot = PROCESS_IOMAX
               THEN sys_ret' = RetErr("EMFILE")
                    /\ UNCHANGED <<iotab, sys_refcnt>>
               ELSE /\ iotab' = [iotab EXCEPT ![slot] = d]
                    /\ sys_refcnt' = [sys_refcnt EXCEPT ![d] = 1]
                    /\ sys_ret' = RetOk(slot)
    /\ UNCHANGED <<sys_halt, sys_new>>

\* sysclose (305-324)
sysclose ==
    /\ SysStep
    /\ \E fd \in SysFds :
        /\ sys_op' = "close" /\ sys_fd' = fd
        /\ IF fd \in SysSlots /\ iotab[fd] # NoIo
           THEN /\ sys_refcnt' = [sys_refcnt EXCEPT ![iotab[fd]] = @ - 1]
                /\ iotab' = [iotab EXCEPT ![fd] = NoIo]
                /\ sys_ret' = RetOk(0)
           ELSE /\ sys_ret' = RetErr("EBADFD")
                /\ UNCHANGED <<iotab, sys_refcnt>>
    /\ UNCHANGED <<sys_halt, sys_new>>

\* what sysread (326-338), syswrite (340-354) and sysioctl (356-363)
\* share: only a negative fd is tested; a call on an open endpoint returns
\* its result, here a count of 0
SysTransfer(op, fd) ==
    /\ sys_op' = op /\ sys_fd' = fd
    /\ IF fd >= 0
       THEN /\ SysDeref(fd)
            /\ sys_ret' = IF sys_halt' = "run" THEN RetOk(0) ELSE sys_ret
       ELSE /\ sys_ret' = RetErr("EBADFD")
            /\ UNCHANGED sys_halt

sysread ==
    /\ SysStep
    /\ \E fd \in SysFds : SysTransfer("read", fd)
    /\ UNCHANGED <<iotab, sys_refcnt, sys_new>>

syswrite ==
    /\ SysStep
    /\ \E fd \in SysFds : SysTransfer("write", fd)
    /\ UNCHANGED <<iotab, sys_refcnt, sys_new>>

sysioctl ==
    /\ SysStep
    /\ \E fd \in SysFds : SysTransfer("ioctl", fd)
    /\ UNCHANGED <<iotab, sys_refcnt, sys_new>>

\* sysiodup (183-219)
sysiodup ==
    /\ SysStep
    /\ \E oldfd \in SysFds, newfd \in SysFds :
        /\ sys_op' = "iodup" /\ sys_fd' = oldfd /\ sys_new' = newfd
        /\ \A d \in SysDevices : sys_refcnt[d] < MaxSysRef
        /\ IF newfd \in SysSlots /\ oldfd \in SysSlots
           THEN IF iotab[newfd] = NoIo /\ iotab[oldfd] # NoIo
                THEN /\ iotab' = [iotab EXCEPT ![newfd] = iotab[oldfd]]
                     /\ sys_refcnt' = [sys_refcnt EXCEPT
                                          ![iotab[oldfd]] = @ + 1]
                     /\ sys_ret' = RetOk(newfd)
                     /\ UNCHANGED sys_halt
                ELSE /\ iotab' = [iotab EXCEPT ![newfd] = NoIo]
                     /\ sys_ret' = RetOk(newfd)
                     /\ UNCHANGED <<sys_refcnt, sys_halt>>
           ELSE IF newfd < 0 /\ oldfd \in SysSlots
           THEN IF FirstFreeSlot = PROCESS_IOMAX
                THEN /\ sys_ret' = RetErr("EBADFD")
                     /\ UNCHANGED <<iotab, sys_refcnt, sys_halt>>
                ELSE IF iotab[oldfd] = NoIo
                THEN \* ioaddref(NULL): assert(io != NULL) (433)
                     /\ sys_halt' = "assert"
                     /\ UNCHANGED <<iotab, sys_refcnt, sys_ret>>
                ELSE /\ iotab' = [iotab EXCEPT
                                     ![FirstFreeSlot] = iotab[oldfd]]
                     /\ sys_refcnt' = [sys_refcnt EXCEPT
                                          ![iotab[oldfd]] = @ + 1]
                     /\ sys_ret' = RetOk(FirstFreeSlot)
                     /\ UNCHANGED sys_halt
           ELSE /\ sys_ret' = RetErr("EBADFD")
                /\ UNCHANGED <<iotab, sys_refcnt, sys_halt>>

NextSys ==
    \/ sysdevopen \/ sysclose
    \/ sysread \/ syswrite \/ sysioctl
    \/ sysiodup

\* ============================================================== memory
\* Page frames are numbered; a frame holds a page table (pt) or the bytes
\* of a page, of which the model keeps one value (pg).  A virtual page of
\* user memory is <<VPN1, VPN0>> under the one level 2 slot of user memory.
NULLPP == 0                         \* the null page pointer
RAM_START == MaxCnt + 1             \* the frames below RAM are device memory
PoolFrames == RAM_START .. (RAM_START + NPages - 1)
MAIN_PT2 == RAM_START + NPages      \* main_pt2, a static page of the kernel
AllFrames == 0 .. MAIN_PT2
PteIdx == 0 .. (PTE_CNT - 1)
UVPN2 == PTE_CNT - 1                \* VPN2 of user memory
UVmas == PteIdx \X PteIdx
Vals == 0 .. MaxVal

\* PTE_VALID, PTE_GLOBAL (127-128)
PTE_VALID(pte) == "V" \in pte.flags
PTE_GLOBAL(pte) == "G" \in pte.flags
\* null_pte (972-975)
null_pte == [flags |-> {}, ppn |-> NULLPP]
\* leaf_pte (958-963)
leaf_pte(pp, rwxug_flags) ==
    [flags |-> rwxug_flags \cup {"A", "D", "V"}, ppn |-> pp]
\* ptab_pte (965-970)
ptab_pte(ptab, g_flag) == [flags |-> g_flag \cup {"V"}, ppn |-> ptab]
\* memset(pp, 0, PAGE_SIZE) of a page table
NullTable == [i \in PteIdx |-> null_pte]

\* ---- the free chunk list: a sequence of chunks [base, pagecnt]
\* alloc_phys_pages (763-782): the first chunk of exactly cnt pages
ExactChunk(list, cnt) ==
    LET S == {i \in 1 .. Len(list) : list[i].pagecnt = cnt}
    IN  IF S = {} THEN 0 ELSE CHOOSE i \in S : \A j \in S : i <= j
\* alloc_phys_pages (784-806): the first of the smallest larger chunks
TargetChunk(list, cnt) ==
    LET S == {i \in 1 .. Len(list) : list[i].pagecnt > cnt}
        B == {i \in S : \A j \in S :
                  \/ list[i].pagecnt < list[j].pagecnt
                  \/ list[i].pagecnt = list[j].pagecnt /\ i <= j}
    IN  IF S = {} THEN 0 ELSE CHOOSE i \in B : TRUE
\* no chunk of the list holds cnt pages
NoFit(list, cnt) == \A i \in 1 .. Len(list) : list[i].pagecnt < cnt
\* alloc_phys_pages (760-829) when a chunk fits: the page returned and the
\* list left
AllocChunk(list, cnt) ==
    LET e == ExactChunk(list, cnt)
        t == TargetChunk(list, cnt)
    IN  IF e # 0
        THEN [ret |-> list[e].base, list |-> RemoveAt(list, e)]
        ELSE [ret |-> list[t].base,
              list |-> [list EXCEPT ![t] =
                           [base |-> list[t].base + cnt,
                            pagecnt |-> list[t].pagecnt - cnt]]]
\* alloc_phys_pages (810-817) when no chunk fits and the accesses through
\* the null target do not trap: the list head becomes the chunk written at
\* address cnt * PAGE_SIZE, whose pagecnt was computed from device memory
WildList(cnt, junk) == <<[base |-> cnt, pagecnt |-> junk]>>
\* free_phys_pages (834-879): insertion by address, no merging
FreeChunk(list, pp, cnt) ==
    LET chunk == [base |-> pp, pagecnt |-> cnt]
        S == {i \in 2 .. Len(list) : ~(list[i].base < pp)}
        at == IF S = {} THEN Len(list) + 1
              ELSE CHOOSE i \in S : \A j \in S : i <= j
    IN  IF list = <<>> THEN <<chunk>>
        ELSE IF pp < list[1].base THEN <<chunk>> \o list
        ELSE SubSeq(list, 1, at - 1) \o <<chunk>>
                 \o SubSeq(list, at, Len(list))

\* ---- the memory a function works on: fl the free chunk list, tab the
\* page tables, byt the page contents, pp the page allocated last, ok
\* FALSE once alloc_phys_page was called with no page left
MemNow == [fl |-> free_chunk_list, tab |-> pt, byt |-> pg, pp |-> NULLPP,
           ok |-> TRUE]
\* alloc_phys_page() (744-747) followed by memset(pp, 0, PAGE_SIZE)
AllocZeroed(M) ==
    IF ~M.ok \/ NoFit(M.fl, 1) THEN [M EXCEPT !.ok = FALSE, !.pp = NULLPP]
    ELSE LET a == AllocChunk(M.fl, 1)
         IN  [fl |-> a.list,
              tab |-> [M.tab EXCEPT ![a.ret] = NullTable],
              byt |-> [M.byt EXCEPT ![a.ret] = 0],
              pp |-> a.ret, ok |-> TRUE]
SetPte(M, table, i, pte) ==
    IF M.ok THEN [M EXCEPT !.tab[table][i] = pte] ELSE M

\* the value of F at v, with v computed once
Bind(v, F(_)) == CHOOSE r \in {F(x) : x \in {v}} : TRUE

\* map_page (461-522) in the space of root page table root
map_page(M, root, vma, pp, rwxug_flags) ==
    Bind(IF PTE_VALID(M.tab[root][UVPN2]) THEN M
         ELSE Bind(AllocZeroed(M),
                   LAMBDA N : SetPte(N, root, UVPN2, ptab_pte(N.pp, {}))),
         LAMBDA A1 :
    Bind(A1.tab[root][UVPN2].ppn, LAMBDA pt1 :
    Bind(IF ~A1.ok \/ PTE_VALID(A1.tab[pt1][vma[1]]) THEN A1
         ELSE Bind(AllocZeroed(A1),
                   LAMBDA N : SetPte(N, pt1, vma[1], ptab_pte(N.pp, {}))),
         LAMBDA A0 :
    Bind(A0.tab[pt1][vma[1]].ppn, LAMBDA pt0 :
        IF ~A0.ok \/ PTE_VALID(A0.tab[pt0][vma[2]]) THEN A0
        ELSE SetPte(A0, pt0, vma[2], leaf_pte(pp, rwxug_flags))))))

\* clone_active_mspace (363-376): the loop over a level 0 table
RECURSIVE CloneLevel0(_, _, _, _)
CloneLevel0(M, level_0_pte, new_level_0_pte, k) ==
    IF ~M.ok \/ k = PTE_CNT THEN M
    ELSE IF ~PTE_VALID(M.tab[level_0_pte][k])
    THEN Bind(SetPte(M, level_0_pte, k, null_pte), LAMBDA P :
             CloneLevel0(P, level_0_pte, new_level_0_pte, k + 1))
    ELSE Bind(M.tab[level_0_pte][k], LAMBDA src :
         Bind(AllocZeroed(M), LAMBDA N :
         Bind(IF N.ok THEN [N EXCEPT !.byt[N.pp] = N.byt[src.ppn]] ELSE N,
              LAMBDA C :
         Bind(SetPte(C, new_level_0_pte, k, leaf_pte(N.pp, src.flags)),
              LAMBDA P :
             CloneLevel0(P, level_0_pte, new_level_0_pte, k + 1)))))

\* clone_active_mspace (345-378): the loop over a level 1 table
RECURSIVE CloneLevel1(_, _, _, _)
CloneLevel1(M, level_1_pte, new_level_1_pte, j) ==
    IF ~M.ok \/ j = PTE_CNT THEN M
    ELSE IF ~PTE_VALID(M.tab[level_1_pte][j])
    THEN Bind(SetPte(M, level_1_pte, j, null_pte), LAMBDA P :
             CloneLevel1(P, level_1_pte, new_level_1_pte, j + 1))
    ELSE Bind(M.tab[level_1_pte][j].ppn, LAMBDA src :
         Bind(AllocZeroed(M), LAMBDA N :
         Bind(SetPte(N, new_level_1_pte, j, ptab_pte(N.pp, {})), LAMBDA P :
         Bind(IF src = NULLPP THEN P ELSE CloneLevel0(P, src, N.pp, 0),
              LAMBDA Q :
             CloneLevel1(Q, level_1_pte, new_level_1_pte, j + 1)))))

\* clone_active_mspace (321-380): the loop over the level 2 table
RECURSIVE CloneLevel2(_, _, _, _)
CloneLevel2(M, level_2_pte, new_main_pte, i) ==
    IF ~M.ok \/ i = PTE_CNT THEN M
    ELSE Bind(M.tab[level_2_pte][i], LAMBDA e :
         IF ~PTE_VALID(e)
         THEN Bind(SetPte(M, new_main_pte, i, null_pte), LAMBDA P :
                  CloneLevel2(P, level_2_pte, new_main_pte, i + 1))
         ELSE IF PTE_GLOBAL(e)
         THEN Bind(SetPte(M, new_main_pte, i, e), LAMBDA P :
                  CloneLevel2(P, level_2_pte, new_main_pte, i + 1))
         ELSE Bind(AllocZeroed(M), LAMBDA N :
              Bind(SetPte(N, new_main_pte, i, ptab_pte(N.pp, {})),
                   LAMBDA P :
              Bind(IF e.ppn = NULLPP THEN P
                   ELSE CloneLevel1(P, e.ppn, N.pp, 0), LAMBDA Q :
                  CloneLevel2(Q, level_2_pte, new_main_pte, i + 1)))))

\* the translation of a user page through the space of root: its leaf
\* entry, or the null entry
Walk(tab, root, vma) ==
    LET e2 == tab[root][UVPN2]
        e1 == tab[e2.ppn][vma[1]]
        e0 == tab[e1.ppn][vma[2]]
    IN  IF ~PTE_VALID(e2) THEN null_pte
        ELSE IF ~PTE_VALID(e1) THEN null_pte
        ELSE IF ~PTE_VALID(e0) THEN null_pte ELSE e0
Mapped(tab, root) == {v \in UVmas : PTE_VALID(Walk(tab, root, v))}
\* an address below UMEM_START_VMA or from UMEM_END_VMA on (899)
NoVma == <<PTE_CNT, PTE_CNT>>
\* the addresses at which a store of user mode faults
StoreFaults(tab, root) ==
    {v \in UVmas : "W" \notin Walk(tab, root, v).flags} \cup {NoVma}
\* the flags of a segment without PF_W (elf.c:213-227)
SegmentFlags == {{"R", "X", "U"}, {"R", "U"}}

\* PTE_LEAF (129)
PTE_LEAF(pte) == pte.flags \cap {"R", "W", "X"} # {}
\* pt_empty (730-742)
pt_empty(tab, pt_start) == \A i \in PteIdx : ~PTE_VALID(tab[pt_start][i])
\* free_phys_page(pp) (749-752, 834-879)
free_phys_page(M, pp) ==
    IF pp = NULLPP THEN M
    ELSE [M EXCEPT !.fl = FreeChunk(@, pp, 1), !.byt[pp] = 0,
                   !.tab[pp] = NullTable]
\* find_physical_page (524-552): the level 0 table of vma, or NULL; pt1 is
\* the uninitialized value g when the level 2 entry is not valid
find_physical_page(tab, root, vma, g) ==
    LET pt1 == IF PTE_VALID(tab[root][UVPN2]) THEN tab[root][UVPN2].ppn
               ELSE g
    IN  IF PTE_VALID(tab[pt1][vma[1]]) THEN tab[pt1][vma[1]].ppn
        ELSE NULLPP
\* find_pte_level_1 (554-578)
find_pte_level_1(tab, root) ==
    IF PTE_VALID(tab[root][UVPN2]) THEN tab[root][UVPN2].ppn ELSE NULLPP
\* unmap_and_free_range (694-725): one leaf is removed and the tables it
\* leaves empty are freed; go FALSE where the function returns
UnmapLeaf(M, root, entry, vma) ==
    Bind(SetPte(free_phys_page(M, M.tab[entry][vma[2]].ppn),
                entry, vma[2], null_pte), LAMBDA M1 :
    Bind(find_pte_level_1(M1.tab, root), LAMBDA pt1_table :
        IF pt1_table = NULLPP THEN [m |-> M1, go |-> FALSE]
        ELSE IF ~pt_empty(M1.tab, M1.tab[pt1_table][vma[1]].ppn)
        THEN [m |-> M1, go |-> TRUE]
        ELSE Bind(SetPte(free_phys_page(M1, M1.tab[pt1_table][vma[1]].ppn),
                         pt1_table, vma[1], null_pte), LAMBDA M2 :
             IF ~pt_empty(M2.tab, M2.tab[root][UVPN2].ppn)
             THEN [m |-> M2, go |-> TRUE]
             ELSE [m |-> SetPte(free_phys_page(M2, M2.tab[root][UVPN2].ppn),
                                root, UVPN2, null_pte),
                   go |-> TRUE])))
\* unmap_and_free_range (687-727): the loop over n pages from page k
RECURSIVE UnmapFrom(_, _, _, _, _)
UnmapFrom(M, root, g, k, n) ==
    IF n = 0 THEN M
    ELSE Bind(<<k \div PTE_CNT, k % PTE_CNT>>, LAMBDA vma :
         Bind(find_physical_page(M.tab, root, vma, g), LAMBDA entry :
             IF entry = NULLPP THEN M
             ELSE IF ~PTE_LEAF(M.tab[entry][vma[2]])
             THEN UnmapFrom(M, root, g, k + 1, n - 1)
             ELSE Bind(UnmapLeaf(M, root, entry, vma), LAMBDA r :
                      IF r.go THEN UnmapFrom(r.m, root, g, k + 1, n - 1)
                      ELSE r.m)))

\* memory_init (168-290): the level 2 slots below user memory map device
\* memory with global gigapages, and every page of the pool is free
MemInit ==
    /\ free_chunk_list = <<[base |-> RAM_START, pagecnt |-> NPages]>>
    /\ pt = [f \in AllFrames |->
                IF f = MAIN_PT2
                THEN [i \in PteIdx |->
                         IF i = UVPN2 THEN null_pte
                         ELSE leaf_pte(i, {"R", "W", "G"})]
                ELSE NullTable]
    /\ pg = [f \in AllFrames |-> 0]
    /\ satp = MAIN_PT2
    /\ clone_mtag = NULLPP
    /\ mem_held = {}
    /\ mem_fault = "none"
    /\ al_ret = NULLPP
    /\ pf_ret = 1
    /\ n_faults = 0
    /\ n_allocs = 0 /\ al_cnt = 0 /\ n_stores = 0
    /\ cloned = FALSE
    /\ n_unmaps = 0 /\ um_vp = 0 /\ um_cnt = 0
    /\ pf_vma = NoVma

MemStep == mem_fault = "none" /\ UNCHANGED nonMemVars

\* the outcomes of alloc_phys_pages(cnt) when no chunk fits: target is
\* NULL and is read and written through (810-813).  Either the access
\* traps and the kernel stops, or it does not and the list head is lost.
AllocNoFit(cnt) ==
    \/ /\ mem_fault' = "halt"
       /\ UNCHANGED free_chunk_list
    \/ /\ mem_fault' = "wild"
       /\ \E junk \in 0 .. 1 : free_chunk_list' = WildList(cnt, junk)

\* alloc_phys_pages(cnt) (760-829) called by the kernel
alloc_phys_pages ==
    /\ MemStep
    /\ n_allocs < MaxAllocs
    /\ \E cnt \in 1 .. MaxCnt :
        /\ al_cnt' = cnt
        /\ n_allocs' = n_allocs + 1
        /\ IF NoFit(free_chunk_list, cnt)
           THEN /\ AllocNoFit(cnt)
                /\ al_ret' = NULLPP
                /\ UNCHANGED mem_held
           ELSE \E a \in {AllocChunk(free_chunk_list, cnt)} :
                    /\ free_chunk_list' = a.list
                    /\ al_ret' = a.ret
                    /\ mem_held' = mem_held \cup
                                       {[base |-> a.ret, pagecnt |-> cnt]}
                    /\ UNCHANGED mem_fault
    /\ UNCHANGED <<pt, pg, satp, clone_mtag, pf_ret, n_faults, n_stores,
                   cloned, umVars, pf_vma>>

\* free_phys_pages(pp, cnt) (834-879) of pages the kernel allocated
free_phys_pages ==
    /\ MemStep
    /\ \E b \in mem_held :
        /\ free_chunk_list' = FreeChunk(free_chunk_list, b.base, b.pagecnt)
        /\ pg' = [pg EXCEPT ![b.base] = 0]
        /\ pt' = [pt EXCEPT ![b.base] = NullTable]
        /\ mem_held' = mem_held \ {b}
    /\ UNCHANGED <<satp, clone_mtag, mem_fault, al_ret, pf_ret, n_faults,
                   n_allocs, al_cnt, n_stores, cloned, umVars, pf_vma>>

\* handle_umode_page_fault (896-916) for the store of user mode to a page
\* that is not mapped writable, or to an address outside user memory
handle_umode_page_fault ==
    /\ MemStep
    /\ n_faults < MaxFaults
    /\ \E vma \in StoreFaults(pt, satp) :
        /\ n_faults' = n_faults + 1
        /\ pf_vma' = vma
        /\ IF vma = NoVma
           THEN /\ pf_ret' = 0
                /\ UNCHANGED <<free_chunk_list, pt, pg, mem_fault>>
           ELSE IF NoFit(free_chunk_list, 1)
           THEN /\ AllocNoFit(1)
                /\ pf_ret' = 0
                /\ UNCHANGED <<pt, pg>>
           ELSE \E a \in {AllocChunk(free_chunk_list, 1)} :
                \E M \in {map_page([MemNow EXCEPT !.fl = a.list], satp, vma,
                                   a.ret, {"R", "W", "U"})} :
                    IF M.ok
                    THEN /\ free_chunk_list' = M.fl
                         /\ pt' = M.tab /\ pg' = M.byt
                         /\ pf_ret' = 1
                         /\ UNCHANGED mem_fault
                    ELSE /\ AllocNoFit(1)
                         /\ UNCHANGED <<pt, pg, pf_ret>>
    /\ UNCHANGED <<satp, clone_mtag, mem_held, al_ret, n_allocs, al_cnt,
                   n_stores, cloned, umVars>>

\* a store of user mode to a page mapped writable in the active space
user_store ==
    /\ MemStep
    /\ n_stores < MaxStores
    /\ \E vma \in Mapped(pt, satp), v \in Vals :
        LET e == Walk(pt, satp, vma)
        IN  /\ {"W", "U"} \subseteq e.flags
            /\ pg[e.ppn] # v
            /\ pg' = [pg EXCEPT ![e.ppn] = v]
    /\ n_stores' = n_stores + 1
    /\ UNCHANGED <<free_chunk_list, pt, satp, clone_mtag, mem_held,
                   mem_fault, al_ret, pf_ret, n_faults, n_allocs, al_cnt,
                   cloned, umVars, pf_vma>>

\* clone_active_mspace (308-382), called once, by the fork of a process
clone_active_mspace ==
    /\ MemStep
    /\ ~cloned
    /\ Mapped(pt, satp) # {}
    /\ cloned' = TRUE
    /\ \E N \in {AllocZeroed(MemNow)} :
       \E M \in {CloneLevel2(N, satp, N.pp, 0)} :
           IF M.ok
           THEN /\ free_chunk_list' = M.fl
                /\ pt' = M.tab /\ pg' = M.byt
                /\ clone_mtag' = N.pp
                /\ UNCHANGED mem_fault
           ELSE /\ AllocNoFit(1)
                /\ clone_mtag' = N.pp
                /\ UNCHANGED <<pt, pg>>
    /\ UNCHANGED <<satp, mem_held, al_ret, pf_ret, n_faults, n_allocs,
                   al_cnt, n_stores, umVars, pf_vma>>

\* switch_mspace (297-303) to the other of the two spaces
switch_mspace ==
    /\ MemStep
    /\ clone_mtag # NULLPP
    /\ satp' = IF satp = MAIN_PT2 THEN clone_mtag ELSE MAIN_PT2
    /\ UNCHANGED <<free_chunk_list, pt, pg, clone_mtag, mem_held, mem_fault,
                   al_ret, pf_ret, n_faults, n_allocs, al_cnt, n_stores,
                   cloned, umVars, pf_vma>>

\* unmap_and_free_range(vp, size) (676-728) on um_cnt pages of user memory
\* from page um_vp.  With no valid level 2 entry find_physical_page reads
\* its uninitialized pt1: the access traps, or pt1 is some page g
unmap_and_free_range ==
    /\ MemStep
    /\ n_unmaps < MaxUnmaps
    /\ n_unmaps' = n_unmaps + 1
    /\ \E vp \in 0 .. (PTE_CNT * PTE_CNT - 1) :
       \E cnt \in 1 .. (PTE_CNT * PTE_CNT - vp) :
        /\ um_vp' = vp /\ um_cnt' = cnt
        /\ \/ /\ ~PTE_VALID(pt[satp][UVPN2])
              /\ mem_fault' = "halt"
              /\ UNCHANGED <<free_chunk_list, pt, pg>>
           \/ \E g \in AllFrames :
              \E M \in {UnmapFrom(MemNow, satp, g, vp, cnt)} :
                 /\ PTE_VALID(pt[satp][UVPN2]) => g = NULLPP
                 /\ free_chunk_list' = M.fl
                 /\ pt' = M.tab /\ pg' = M.byt
                 /\ UNCHANGED mem_fault
    /\ UNCHANGED <<satp, clone_mtag, mem_held, al_ret, pf_ret, n_faults,
                   n_allocs, al_cnt, n_stores, cloned, pf_vma>>

\* set_pte_flags (598-609) as elf_load calls it through set_range_flags
\* (elf.c:227) for a segment that is not writable: the R, W, X, U and G
\* flags of a mapped page are replaced
set_pte_flags ==
    /\ MemStep
    /\ \E vma \in Mapped(pt, satp), rwxug_flags \in SegmentFlags :
        \E entry \in {find_physical_page(pt, satp, vma, NULLPP)} :
            /\ pt[entry][vma[2]].flags \cap {"R", "W", "X", "U", "G"}
                   # rwxug_flags
            /\ pt' = [pt EXCEPT ![entry][vma[2]].flags =
                          (@ \ {"R", "W", "X", "U", "G"}) \cup rwxug_flags]
    /\ UNCHANGED <<free_chunk_list, pg, satp, clone_mtag, mem_held,
                   mem_fault, al_ret, pf_ret, n_faults, n_allocs, al_cnt,
                   n_stores, cloned, umVars, pf_vma>>

NextMem ==
    \/ alloc_phys_pages \/ free_phys_pages
    \/ handle_umode_page_fault \/ user_store
    \/ clone_active_mspace \/ switch_mspace

\* =============================================================== timer
\* The threads of Sleepers call sleep_us; the alarm of each has its name.
\* interruptAlrm is the alarm named "interrupter".
Sleepers == {"A", "B"}
interruptAlrm == "interrupter"
Alarms == Sleepers \cup {interruptAlrm}
Times == 0 .. UINT64_MAX
Tcnts == {1, 2, UINT64_MAX}         \* the tick counts asked of alarm_sleep

\* alarm_sleep (105-110): twake advanced by tcnt, saturating
AdvanceWake(tw, tcnt) ==
    IF UINT64_MAX - tw < tcnt THEN UINT64_MAX ELSE tw + tcnt
\* the insertion without the search: the alarm becomes the head
SleepInsert_AtHead(list, tw, al) == <<al>> \o list
\* alarm_sleep (121-142): the sleep list with alarm al linked in
SleepInsert(list, tw, al) ==
    LET S == {i \in 2 .. Len(list) : ~(tw[list[i]] < tw[al])}
        at == IF S = {} THEN Len(list) + 1
              ELSE CHOOSE i \in S : \A j \in S : i <= j
    IN  IF list = <<>> THEN <<al>>
        ELSE IF tw[al] < tw[list[1]] THEN <<al>> \o list
        ELSE SubSeq(list, 1, at - 1) \o <<al>>
                 \o SubSeq(list, at, Len(list))
\* alarm_sleep_ms(&interruptAlrm, 20) (97-150) at time now, from the state
\* T = [list, tw, st, cmp, ie]: the alarm does not wait
SleepInterrupter(T, now) ==
    Bind(AdvanceWake(T.tw[interruptAlrm], INTERRUPT_TICKS), LAMBDA w :
    Bind([T.tw EXCEPT ![interruptAlrm] = w], LAMBDA tw :
        IF w < now THEN [T EXCEPT !.tw = tw]
        ELSE Bind(SleepInsert(T.list, tw, interruptAlrm), LAMBDA list :
                 [T EXCEPT !.tw = tw, !.list = list,
                           !.cmp = tw[list[1]], !.ie = TRUE])))
\* handle_timer_interrupt (226-241): the loop over the head of the list
RECURSIVE WakeLoop(_, _)
WakeLoop(T, now) ==
    IF T.list = <<>> \/ ~(T.tw[Head(T.list)] < now) THEN T
    ELSE IF Head(T.list) = interruptAlrm
    THEN Bind([T EXCEPT !.tw[interruptAlrm] = now, !.list = Tail(@)],
              LAMBDA R : WakeLoop(SleepInterrupter(R, now), now))
    ELSE WakeLoop([T EXCEPT !.st[Head(T.list)] = "ready",
                            !.list = Tail(@)], now)
TimerNow == [list |-> sleep_list, tw |-> twake, st |-> al_state,
             cmp |-> stcmp, ie |-> stie]

TimerInit ==
    /\ t_now = 0
    /\ twake = [a \in Alarms |-> 0]
    /\ sleep_list = <<>>
    /\ stcmp = 0
    /\ stie = FALSE
    /\ timer_initialized = 0
    /\ al_state = [t \in Sleepers |-> "run"]
    /\ t_op = "none"

TimerStep(op) == t_op' = op /\ UNCHANGED nonTimerVars

\* the time counter advances
tick ==
    /\ TimerStep("tick")
    /\ t_now < MaxNow
    /\ t_now' = t_now + 1
    /\ UNCHANGED <<twake, sleep_list, stcmp, stie, timer_initialized,
                   al_state>>

\* timer_init (41-50)
timer_init ==
    /\ TimerStep("timer_init")
    /\ timer_initialized # 1
    /\ \E T \in {SleepInterrupter(
                     [TimerNow EXCEPT !.cmp = UINT64_MAX,
                                      !.tw[interruptAlrm] = t_now], t_now)} :
           /\ twake' = T.tw /\ sleep_list' = T.list
           /\ stcmp' = T.cmp /\ stie' = T.ie
    /\ timer_initialized' = 1
    /\ UNCHANGED <<t_now, al_state>>

\* alarm_init (82-91) called by sleep_us (195)
alarm_init ==
    /\ TimerStep("alarm_init")
    /\ \E t \in Sleepers :
        /\ al_state[t] = "run"
        /\ twake' = [twake EXCEPT ![t] = t_now]
        /\ al_state' = [al_state EXCEPT ![t] = "init"]
    /\ UNCHANGED <<t_now, sleep_list, stcmp, stie, timer_initialized>>

\* alarm_sleep (97-114): the wake time is advanced; the call returns if it
\* has passed
as_begin ==
    /\ TimerStep("as_begin")
    /\ \E t \in Sleepers, tcnt \in Tcnts :
        /\ al_state[t] = "init"
        /\ twake' = [twake EXCEPT ![t] = AdvanceWake(@, tcnt)]
        /\ al_state' = [al_state EXCEPT ![t] =
                            IF twake'[t] < t_now THEN "run" ELSE "armed"]
    /\ UNCHANGED <<t_now, sleep_list, stcmp, stie, timer_initialized>>

\* alarm_sleep (118-148) with interrupts disabled: the alarm is linked in,
\* the compare register set and the thread waits on the alarm's condition
as_insert ==
    /\ TimerStep("as_insert")
    /\ \E t \in Sleepers :
        /\ al_state[t] = "armed"
        /\ sleep_list' = SleepInsert(sleep_list, twake, t)
        /\ al_state' = [al_state EXCEPT ![t] = "sleep"]
    /\ stcmp' = twake[sleep_list'[1]]
    /\ stie' = TRUE
    /\ UNCHANGED <<t_now, twake, timer_initialized>>

\* alarm_sleep (149-150): the thread made ready runs and returns
as_return ==
    /\ TimerStep("as_return")
    /\ \E t \in Sleepers :
        /\ al_state[t] = "ready"
        /\ al_state' = [al_state EXCEPT ![t] = "run"]
    /\ UNCHANGED <<t_now, twake, sleep_list, stcmp, stie, timer_initialized>>

\* handle_timer_interrupt (208-251), taken when the timer interrupt is
\* enabled and the time counter has reached the compare register
handle_timer_interrupt ==
    /\ TimerStep("isr")
    /\ stie /\ t_now >= stcmp
    /\ \E T \in {WakeLoop(TimerNow, t_now)} :
        /\ twake' = T.tw /\ sleep_list' = T.list /\ al_state' = T.st
        /\ IF T.list # <<>>
           THEN stcmp' = T.tw[T.list[1]] /\ stie' = T.ie
           ELSE stcmp' = T.cmp /\ stie' = FALSE
    /\ UNCHANGED <<t_now, timer_initialized>>

NextTimer ==
    \/ tick \/ timer_init \/ alarm_init \/ as_begin \/ as_insert
    \/ as_return \/ handle_timer_interrupt

\* ====================================================== specifications
\* the subsystems that every specification starts alike
RestInit ==
    /\ PipeInit
    /\ CacheInit
    /\ VioblkInit
    /\ KtfsInit
    /\ MemInit
    /\ SeekInit
    /\ SysInit
    /\ LruInit
    /\ TimerInit

\* the other specifications keep one file system image
KtFixed == kt_root = 0 /\ root_dir_inode = ZeroInode
VbShared == vb_single = FALSE
Init ==
    /\ KtFixed /\ VbShared /\ SchedInit /\ IoInit /\ io_group = "none"
    /\ RestInit
InitIO ==
    /\ KtFixed /\ VbShared /\ SchedInit /\ IoInit /\ io_group \in Groups
    /\ RestInit
\* the block device used by one thread
InitVioblkSingle ==
    /\ KtFixed /\ vb_single = TRUE /\ SchedInit /\ IoInit
    /\ io_group = "none" /\ RestInit
\* a formatted device, whatever inode holds its root directory
InitKtfs ==
    /\ kt_root \in KtRoots /\ VbShared /\ SchedInit /\ IoInit
    /\ io_group = "none" /\ RestInit

Next ==
    \/ rts_pick \/ rts_switch \/ rts_resume
    \/ cw_state \/ cw_insert \/ cw_suspend
    \/ la_test \/ la_own \/ la_link
    \/ lr_test \/ lr_clear \/ lr_bcast
    \/ ts_create \/ ts_insert \/ ts_ctx
    \/ te_state \/ te_bcast \/ te_suspend
    \/ tj_test \/ tj_loop
    \/ idle_thread_func \/ Preempt
    \/ w_acq \/ w_load \/ w_store \/ w_rel
    \/ m_spawn \/ m_join



\* the same test with main calling thread_join(0) for each worker
NextJoinAny ==
    \/ rts_pick \/ rts_switch \/ rts_resume
    \/ cw_state \/ cw_insert \/ cw_suspend
    \/ la_test \/ la_own \/ la_link
    \/ lr_test \/ lr_clear \/ lr_bcast
    \/ ts_create \/ ts_insert \/ ts_ctx
    \/ te_state \/ te_bcast \/ te_suspend
    \/ tj_any \/ tj_loop
    \/ idle_thread_func \/ Preempt
    \/ w_acq \/ w_load \/ w_store \/ w_rel
    \/ m_spawn \/ m_join

InitJoinAny ==
    /\ KtFixed /\ VbShared /\ SchedStart(TRUE, {0}) /\ IoInit /\ io_group = "none"
    /\ RestInit

\* the lock test on the scheduler, with timer preemption
Spec == Init /\ [][Next]_vars
\* endpoint reference counting
SpecIO == InitIO /\ [][NextIO]_vars
\* one writer and one reader on a pipe
SpecPipe == Init /\ [][NextPipe]_vars
\* a writer and a reader that keep both ends open, each scheduled again and
\* again while it can run (round-robin scheduling with the timer interrupt)
PipeWriter ==
    \/ pw_call \/ pw_full \/ pw_check \/ pw_acq \/ pw_own \/ pw_putc
    \/ pw_tail \/ pw_rel \/ pw_bcast \/ pw_ret
PipeReader ==
    \/ pr_call \/ pr_while \/ pr_if \/ pr_loop \/ pr_getc \/ pr_head
    \/ pr_acq \/ pr_own \/ pr_store \/ pr_rel
NextPipeStream ==
    \/ pw_call \/ pw_full \/ pw_check \/ pw_acq \/ pw_own \/ pw_putc
    \/ pw_tail \/ pw_rel \/ pw_bcast \/ pw_ret
    \/ pr_call \/ pr_while \/ pr_if \/ pr_loop \/ pr_getc \/ pr_head
    \/ pr_acq \/ pr_own \/ pr_store \/ pr_rel
SpecPipeStream ==
    Init /\ [][NextPipeStream]_vars
         /\ WF_vars(PipeWriter) /\ WF_vars(PipeReader)
\* threads on the block cache
SpecCache == Init /\ [][NextCache]_vars
\* two callers of the virtio block driver
\* workers that exit holding the lock: lock_release is reached only
\* through llclear
NextExitHolding ==
    \/ rts_pick \/ rts_switch \/ rts_resume
    \/ cw_state \/ cw_insert \/ cw_suspend
    \/ la_test \/ la_own \/ la_link
    \/ ts_create \/ ts_insert \/ ts_ctx
    \/ te_state \/ te_bcast \/ te_suspend
    \/ tj_test \/ tj_loop
    \/ idle_thread_func \/ Preempt
    \/ w_acq \/ w_load \/ w_store
    \/ m_spawn \/ m_join

InitExitHolding ==
    /\ KtFixed /\ VbShared /\ SchedStart(FALSE, 1 .. MaxHold) /\ IoInit
    /\ io_group = "none" /\ RestInit

SpecExitHolding == InitExitHolding /\ [][NextExitHolding]_vars
\* the scheduler with no timer interrupt: threads are switched only where
\* they call running_thread_suspend
NextCoop ==
    \/ rts_pick \/ rts_switch \/ rts_resume
    \/ cw_state \/ cw_insert \/ cw_suspend
    \/ la_test \/ la_own \/ la_link
    \/ lr_test \/ lr_clear \/ lr_bcast
    \/ ts_create \/ ts_insert \/ ts_ctx
    \/ te_state \/ te_bcast \/ te_suspend
    \/ tj_test \/ tj_loop
    \/ idle_thread_func
    \/ w_acq \/ w_load \/ w_store \/ w_rel
    \/ m_spawn \/ m_join

InitCoop ==
    /\ KtFixed /\ VbShared /\ SchedStart(FALSE, 0 .. MaxHold) /\ IoInit
    /\ io_group = "none" /\ RestInit

SpecCoop == InitCoop /\ [][NextCoop]_vars
\* workers that nest the lock, with timer preemption
NextNested ==
    \/ rts_pick \/ rts_switch \/ rts_resume
    \/ cw_state \/ cw_insert \/ cw_suspend
    \/ la_test \/ la_own \/ la_link
    \/ lr_test \/ lr_clear \/ lr_bcast
    \/ ts_create \/ ts_insert \/ ts_ctx
    \/ te_state \/ te_bcast \/ te_suspend
    \/ tj_test \/ tj_loop
    \/ idle_thread_func \/ Preempt
    \/ wn_acq \/ wn_rel
    \/ m_spawn \/ m_join

InitNested ==
    /\ KtFixed /\ VbShared /\ SchedStart(FALSE, (0 - MaxHold) .. (0 - 1))
    /\ IoInit /\ io_group = "none" /\ RestInit

SpecNested == InitNested /\ [][NextNested]_vars
\* the scheduler with thread_join(0)
SpecJoinAny == InitJoinAny /\ [][NextJoinAny]_vars
SpecVioblk == Init /\ [][NextVioblk]_vars
\* the same driver with one caller
SpecVioblkSingle == InitVioblkSingle /\ [][NextVioblkSingle]_vars
\* calls on the file system
SpecKtfs == InitKtfs /\ [][NextKtfs]_vars
\* the page allocator and the memory spaces
SpecMem == Init /\ [][NextMem]_vars
\* the timer: the hardware raises the interrupt while it is pending and
\* enabled, and a thread that is ready runs
SpecTimer ==
    /\ Init /\ [][NextTimer]_vars
    /\ WF_vars(handle_timer_interrupt) /\ WF_vars(as_return)
\* page faults and unmapping in the two spaces of a forked process
\* the page faults of a process whose image has read-only segments
NextFault == handle_umode_page_fault \/ set_pte_flags \/ user_store
SpecFault == Init /\ [][NextFault]_vars
NextUnmap ==
    \/ handle_umode_page_fault \/ unmap_and_free_range
    \/ clone_active_mspace \/ switch_mspace
SpecUnmap == Init /\ [][NextUnmap]_vars
\* calls on a seekable adapter over the block device
SpecSeek == Init /\ [][NextSeek]_vars
\* one thread on a cache of four slots
SpecLru == Init /\ [][NextLru]_vars
\* system calls on the I/O table of a process
SpecSys == Init /\ [][NextSys]_vars

\* ======================================================= scheduler claims
\* sequence a is the beginning of sequence b
IsPrefix(a, b) ==
    /\ Len(a) <= Len(b)
    /\ \A i \in 1 .. Len(a) : a[i] = b[i]

\* thread t is in the critical section: lock_acquire has returned and
\* lock_release has not been called yet
InCriticalSection(t) ==
    /\ stk[t] # <<>>
    /\ stk[t][Len(stk[t])].pc \in {"w_load", "w_store", "w_rel"}
    /\ \A i \in 1 .. Len(stk[t]) : stk[t][i].pc \notin {"la_test", "la_own", "la_link"}

AllJoined == halt = "success"

\* C1: at most one thread is between lock_acquire and lock_release at any
\* time, and once main has joined every worker the counter equals the number
\* of increments performed
C1_MutualExclusionNoLostIncrement ==
    /\ Cardinality({t \in Workers : InCriticalSection(t)}) <= 1
    /\ AllJoined => counter = NWorkers * NIncr

RunningThreads == {t \in Tids : thrtab[t] /\ state[t] = THREAD_RUNNING}

\* C2: in every reachable state exactly one thread has state RUNNING
C2_ExactlyOneRunning == Cardinality(RunningThreads) = 1

Occurrences(list, t) == Cardinality({i \in 1 .. Len(list) : list[i] = t})
WaitOccurrences(t) ==
    LET RECURSIVE Sum(_)
        Sum(C) == IF C = {} THEN 0
                  ELSE LET c == CHOOSE x \in C : TRUE
                       IN Occurrences(wait_list[c], t) + Sum(C \ {c})
    IN Sum(Conds)

\* C3: a WAITING thread is on exactly one wait list, a READY thread is on
\* the ready list exactly once, and no thread is on two lists
C3_ListMembership ==
    \A t \in Tids : thrtab[t] =>
        /\ state[t] = THREAD_WAITING =>
              WaitOccurrences(t) = 1 /\ Occurrences(ready_list, t) = 0
        /\ state[t] = THREAD_READY =>
              Occurrences(ready_list, t) = 1 /\ WaitOccurrences(t) = 0
        /\ Occurrences(ready_list, t) + WaitOccurrences(t) <= 1

\* the operation the running thread is executing
Op == IF stk[cur] = <<>> THEN "none" ELSE Top(cur).pc
BroadcastOps == {"lr_bcast", "te_bcast", "rts_resume"}

\* the transitions of the diagram, each with the operation that makes it
Transition(t) ==
    \/ state'[t] = state[t]
    \/ /\ state[t] = THREAD_UNINITIALIZED /\ state'[t] = THREAD_READY
       /\ Op = "ts_create"
    \/ /\ state[t] = THREAD_READY /\ state'[t] = THREAD_RUNNING
       /\ Op = "rts_pick"
    \/ /\ state[t] = THREAD_RUNNING /\ state'[t] = THREAD_READY
       /\ Op = "rts_pick"
    \/ /\ state[t] = THREAD_RUNNING /\ state'[t] = THREAD_WAITING
       /\ Op = "cw_state" /\ t = cur
    \/ /\ state[t] = THREAD_WAITING /\ state'[t] = THREAD_READY
       /\ Op \in BroadcastOps
    \/ /\ state[t] = THREAD_RUNNING /\ state'[t] = THREAD_EXITED
       /\ Op = "te_state" /\ t = cur

\* C4: every change of a thread's state is a transition of the diagram made
\* by the operation the diagram names; an EXITED thread never changes state
\* and the context switch never switches to an EXITED thread
C4_TransitionsFollowDiagram ==
    [][/\ \A t \in Tids : Transition(t)
       /\ \A t \in Tids : state[t] = THREAD_EXITED => state'[t] = THREAD_EXITED
       /\ cur' # cur => state[cur'] # THREAD_EXITED]_vars

\* a worker has exited, was switched away from, and main has reclaimed it
C4_Witness ==
    \E t \in Workers : state[t] = THREAD_EXITED /\ ~thrtab[t] /\ cur # t

\* main is inside thread_join(t), in its wait loop
Joining(t) ==
    \E i \in 1 .. Len(stk[MAIN_TID]) :
        stk[MAIN_TID][i].pc = "tj_loop" /\ stk[MAIN_TID][i].arg = t
\* thread_join(t) of main has returned
Joined(t) ==
    /\ stk[MAIN_TID] # <<>>
    /\ LET bottom == stk[MAIN_TID][Len(stk[MAIN_TID])]
       IN  \/ bottom.pc = "m_done"
           \/ bottom.pc = "m_join" /\ bottom.loc > t
    /\ \A i \in 1 .. Len(stk[MAIN_TID]) :
          stk[MAIN_TID][i].pc \in {"tj_test", "tj_loop"}
              => stk[MAIN_TID][i].arg # t
\* a thread that can still run thread_exit's broadcast
CanBroadcast(u) == thrtab[u] /\ (state[u] # THREAD_EXITED \/ cur = u)

\* C19: thread_join(t) returns with the slot of t empty, and the caller
\* does not wait forever once t has exited: it is never left waiting on
\* child_exit for an EXITED thread when no thread remains that will run
\* the broadcast of thread_exit.
C19_JoinReturnsAfterExit ==
    \A t \in Workers :
        /\ Joined(t) => ~thrtab[t]
        /\ (/\ Joining(t) /\ thrtab[t] /\ state[t] = THREAD_EXITED
            /\ state[MAIN_TID] = THREAD_WAITING
            /\ Occurrences(wait_list["child_exit"], MAIN_TID) = 1)
              => \E u \in Workers : CanBroadcast(u)

\* main is in the wait loop of thread_join(0)
JoiningAny ==
    /\ stk[MAIN_TID] # <<>>
    /\ stk[MAIN_TID][Len(stk[MAIN_TID])].arg
    /\ \E i \in 1 .. Len(stk[MAIN_TID]) : stk[MAIN_TID][i].pc = "tj_loop"
\* thread u has exited and its thread_exit has made its broadcast
ExitedAndBroadcast(u) ==
    /\ thrtab[u] /\ state[u] = THREAD_EXITED
    /\ \A i \in 1 .. Len(stk[u]) : stk[u][i].pc # "te_bcast"

\* C20: thread_join(0) returns as soon as any child of the caller has
\* exited, whichever it is: the caller is never waiting on child_exit
\* inside thread_join(0) while a worker it has spawned has exited and has
\* made its broadcast.
C20_JoinAnyReturnsFirstExited ==
    (/\ JoiningAny
     /\ state[MAIN_TID] = THREAD_WAITING
     /\ Occurrences(wait_list["child_exit"], MAIN_TID) = 1)
        => ~\E u \in Workers : ExitedAndBroadcast(u)

\* the scheduler has switched away from t and the thread that runs has
\* left running_thread_suspend, if it came back into it
SwitchedAway(t) ==
    /\ cur # t
    /\ \A i \in 1 .. Len(stk[cur]) :
          ~(stk[cur][i].pc = "rts_resume" /\ stk[cur][i].loc = t)

\* C21: once the scheduler has switched away from a thread that exited
\* holding locks, whatever their recursion depth and whichever thread was
\* dispatched, none of the locks is owned by the exited thread any more.
C21_ExitedThreadHoldsNoLock ==
    \A t \in Workers, l \in Locks :
        (state[t] = THREAD_EXITED /\ SwitchedAway(t)) => lock_owner[l] # t

OnReadyList(t) == \E i \in 1 .. Len(ready_list) : ready_list[i] = t

\* C26: the idle thread is on the ready list whenever it is not running;
\* running_thread_suspend finds the ready list non-empty; and it
\* dispatches the idle thread only when no thread other than the idle
\* thread and the suspending thread is READY
C26_IdleOnlyWhenNothingElseReady ==
    [][/\ state'[IDLE_TID] # THREAD_RUNNING => OnReadyList(IDLE_TID)'
       /\ At(cur, "rts_pick") => halt' = "run"
       /\ (state[IDLE_TID] = THREAD_READY /\ state'[IDLE_TID] = THREAD_RUNNING)
              => \A t \in Tids \ {IDLE_TID, cur} : state[t] # THREAD_READY
      ]_vars

\* thread t is inside lock_acquire or lock_release (or the condition_wait
\* that lock_acquire calls)
InLockCall(t) ==
    \E i \in 1 .. Len(stk[t]) :
        stk[t][i].pc \in {"la_test", "la_own", "la_link",
                          "lr_test", "lr_clear", "lr_bcast",
                          "cw_state", "cw_insert", "cw_suspend"}
\* worker t runs the nesting program and is between two calls
BetweenLockCalls(t) ==
    /\ stk[t] # <<>>
    /\ stk[t][Len(stk[t])].pc \in {"wn_acq", "wn_rel"}
    /\ ~InLockCall(t)
\* the threads that wait for the lock
LockWaiters == {t \in Tids : thrtab[t] /\ state[t] = THREAD_WAITING
                               /\ \E i \in 1 .. Len(stk[t]) :
                                      stk[t][i].pc = "la_test"}

\* C32: a thread that has acquired the lock more often than it has
\* released it owns the lock at depth one less than the difference and has
\* it on its lock list; after its last release it neither owns the lock
\* nor has it on its lock list; a release at depth above 0 changes only the
\* depth, and the release at depth 0 makes every thread that waits for the
\* lock ready
C32_NestedLockStaysOwned ==
    /\ [](\A t \in Workers : BetweenLockCalls(t) =>
            IF iter[t] > 0
            THEN /\ lock_owner["lk"] = t
                 /\ lock_count["lk"] = iter[t] - 1
                 /\ Occurrences(lock_list[t], "lk") = 1
            ELSE stk[t][Len(stk[t])].pc = "wn_rel" =>
                 /\ lock_owner["lk"] # t
                 /\ Occurrences(lock_list[t], "lk") = 0)
    /\ [][(At(cur, "lr_test") /\ lock_count["lk"] > 0
                /\ stk'[cur] = Return(cur)) =>
             /\ lock_count' = [lock_count EXCEPT !["lk"] = @ - 1]
             /\ UNCHANGED <<lock_owner, lock_list, wait_list, ready_list,
                            state>>]_vars
    /\ [][(At(cur, "lr_bcast") /\ stk'[cur] = Return(cur)) =>
             \A t \in LockWaiters : state'[t] = THREAD_READY]_vars

\* ============================================================ I/O claims
\* C5: the reference count of every endpoint equals the number of ioaddref
\* calls made on it, plus one if it was set up by ioinit1, minus the number
\* of ioclose calls made on it
C5_RefcountEqualsHistory ==
    \A e \in Endpoints :
        io_live[e] => io_refcnt[e] = n_addref[e] + n_init1[e] - n_ioclose[e]

\* C6: the close operation of an endpoint is invoked at most once, and
\* never while the reference count of the endpoint is not zero
C6_CloseOnlyAtZeroOnce ==
    \A e \in Endpoints : n_closeop[e] <= 1 /\ ~close_nonzero[e]

\* =========================================================== pipe claims
\* C7: the bytes the reader has received are a prefix of the bytes the
\* pipe has accepted from the writer, and the two are equal once a read has
\* returned end-of-file
C7_PipeOrderPreserved ==
    /\ IsPrefix(received, accepted)
    /\ r_eof => received = accepted

\* the reader has seen end-of-file after the ring has wrapped around
C7_Witness ==
    /\ r_eof
    /\ Len(received) = MaxData
    /\ tailpos > PAGE_SIZE

\* C22: once the last reference to the write end is closed no reader is
\* left waiting on the empty pipe: a reader that waits on notempty while
\* the write end has no reference can be woken by nobody, since only
\* pipe_write broadcasts notempty
C22_NoReaderBlockedAfterWriterClose ==
    writeio_refcnt = 0 => p_wait["reader"] # "notempty"

\* C23: a write never blocks on a pipe whose read end has no reference: a
\* writer that waits on notfull while the read end has no reference can be
\* woken by nobody, since only pipe_read broadcasts notfull
C23_NoWriterBlockedAfterReaderClose ==
    readio_refcnt = 0 => p_wait["writer"] # "notfull"

C8_BlockInAtMostOneSlot ==
    \A i, j \in Slots :
        (i # j /\ block_id[i] # 0 - 1) => block_id[i] # block_id[j]

\* C9: while a thread holds the buffer that cache_get_block returned for a
\* block, the slot of the buffer keeps that block
C9_PinnedSlotKeepsBlock ==
    \A t \in CacheThreads : \A k \in 1 .. Len(pinned[t]) :
        block_id[pinned[t][k].slot] = pinned[t][k].blk

\* C10: a dirty release writes the buffer at the block the matching
\* cache_get_block asked for, while the cache lock is still held, and a
\* clean release writes nothing
C10_DirtyReleaseWritesRequestedBlock ==
    /\ last_write.off = last_write.req /\ last_write.locked
    /\ last_release.wrote = last_release.dirty


\* C33: the slot that a miss evicts is a least recently used one: no
\* other slot was released last at an earlier time than the victim, and
\* the slot released last of all is not the victim while another slot has
\* been released
C33_VictimIsLeastRecentlyUsed ==
    [][(lru_gets' = lru_gets + 1 /\ lru_victim' # 0 - 1) =>
          /\ \A j \in LruSlotSet :
                 lru_stamp[j] > 0 => lru_stamp[j] >= lru_stamp[lru_victim']
          /\ (\E j \in LruSlotSet \ {lru_victim'} : lru_stamp[j] > 0)
                 => lru_stamp[lru_victim'] # lru_clock
      ]_vars

\* C34: when the read of the backing endpoint fails while cache_get_block
\* fills a slot, the call (and the ktfs_readat that made it) returns a
\* negative error code and no slot is newly recorded as holding a block
C34_ReadErrorIsReported ==
    [][(lru_gets' = lru_gets + 1 /\ lru_rderr') =>
          /\ lru_ret' < 0
          /\ \A i \in LruSlotSet :
                 lru_id'[i] = 0 - 1 \/ \E j \in LruSlotSet : lru_id[j] = lru_id'[i]
      ]_vars

\* ========================================================= vioblk claims
\* C11: with concurrent vioblk_readat and vioblk_writeat on one device at
\* most one request is outstanding (avail idx minus used idx is 0 or 1),
\* and a published request carries the header type, the sector, the
\* direction of the data descriptor and the outgoing data of the
\* operation of the thread that holds the driver lock.
C11_PublishedRequestIsLockHolders ==
    /\ avail_idx - used_idx \in {0, 1}
    /\ avail_idx # used_idx =>
        /\ vioblk_lock # NoThread
        /\ LET t == vioblk_lock IN
            /\ vb_pub.type = BlkType(vb_op[t])
            /\ vb_pub.sector = (vb_pos[t] \div VIOBLK_BLKSZ) + vb_i[t]
            /\ vb_pub.dwrite = (vb_op[t] = "read")
            /\ vb_op[t] = "write" =>
                 vb_pub.data = SubBytes(OutBytes(t, vb_bufsz[t]),
                                        vb_i[t] * VIOBLK_BLKSZ, VIOBLK_BLKSZ)


\* C15: on a positional endpoint, here the block device used by one
\* thread, writeat(pos, B) followed by readat(pos, |B|) with pos + |B| not
\* past the end returns |B| and leaves exactly the bytes B in the buffer.
C15_WriteThenReadReturnsBytes ==
    (/\ vb_lastw.done /\ vb_lastr.done
     /\ vb_lastr.pos = vb_lastw.pos
     /\ Len(vb_lastr.buf) = Len(vb_lastw.buf)
     /\ vb_lastw.pos + Len(vb_lastw.buf) <= VbEnd)
        => /\ vb_lastr.ret = RetOk(Len(vb_lastw.buf))
           /\ vb_lastr.buf = vb_lastw.buf

\* ==================================================== file system claims
\* the blocks a file of size bytes reaches through an inode: its data
\* blocks and the index blocks that lead to them
BlockCount(size) == (size + KTFS_BLKSZ - 1) \div KTFS_BLKSZ
IndexBlocks(S, inode, n) ==
    (IF n > KTFS_NUM_DIRECT_DATA_BLOCKS THEN {inode.indirect} ELSE {})
    \cup UNION {
        {inode.dindirect[di]} \cup
        {BlockAt(S, inode.dindirect[di])[x].num :
            x \in {y \in 0 .. KTFS_BLKS_PER_INDIRECT - 1 :
                     KTFS_NUM_DIRECT_DATA_BLOCKS + KTFS_BLKS_PER_INDIRECT
                       + di * KTFS_BLKS_PER_DINDIRECT
                       + y * KTFS_BLKS_PER_INDIRECT < n}}
        : di \in {d \in 0 .. KTFS_NUM_DINDIRECT_BLOCKS - 1 :
                    KTFS_NUM_DIRECT_DATA_BLOCKS + KTFS_BLKS_PER_INDIRECT
                      + d * KTFS_BLKS_PER_DINDIRECT < n}}
ReachableBlocks(S, inode) ==
    {inodeidxblocknum(S, inode, i) : i \in 0 .. BlockCount(inode.size) - 1}
    \cup IndexBlocks(S, inode, BlockCount(inode.size))
\* the directory entries below the size of the root directory
LiveEntries(S) ==
    {DirCell(S, k \div DIR_SIZE, k % DIR_SIZE) :
        k \in 0 .. (S.root.size \div KTFS_DENSZ) - 1}

\* the blocks the root directory inode points to, used or not
DirectoryBlocks(S) == {S.root.block[i] : i \in DirectIdx} \ {0}

\* C12: after every completed call the bits set in the bitmap are those of
\* the blocks reachable from the live inodes (the root directory and the
\* files it lists: data blocks and index blocks) and of the superblock,
\* bitmap and inode blocks.
C12_BitmapIsReachableBlocks ==
    kt_bitmap =
        MetaBits
        \cup DirectoryBlocks(KtState)
        \cup UNION {ReachableBlocks(KtState, InodeAt(KtState, e.num)) :
                       e \in LiveEntries(KtState)}

\* C13: once ktfs_delete(name) has succeeded the name is absent, whatever
\* place its entry had in the directory (first, middle, last, only): an
\* open of the name finds no entry, and a create of the name succeeds and
\* gives a file of size 0.
C13_DeletedNameIsAbsent ==
    (kt_last.op = "delete" /\ kt_last.ret = RetOk(0)) =>
        LET created == KtCreate(KtState, kt_last.name)
        IN  /\ KtOpen(KtState, kt_last.name).ret = RetErr("ENOENT")
            /\ created.ret = RetOk(0)
            /\ KtOpen(created, kt_last.name).file[kt_last.name].fi.size = 0

\* C14: after any sequence of open, close and delete, ktfs_open of a name
\* that is in the directory returns busy exactly when the file of that name
\* is open: it was opened and its endpoint has not been closed since.
C14_BusyIffOpen ==
    \A name \in KtNames :
        DirMatches(KtState, name) # {} =>
            ((KtOpen(KtState, name).ret = RetErr("EBUSY"))
                <=> (kt_file[name].held /\ kt_file[name].open))

\* the index blocks a file of n data blocks needs: the indirect block, the
\* double-indirect blocks and the indirect blocks below them
IndexSlots(n) ==
    (IF n > KTFS_NUM_DIRECT_DATA_BLOCKS THEN {<<"indirect", 0, 0>>} ELSE {})
    \cup UNION {
        {<<"dindirect", di, 0>>} \cup
        {<<"below", di, y>> :
            y \in {z \in 0 .. KTFS_BLKS_PER_INDIRECT - 1 :
                     KTFS_NUM_DIRECT_DATA_BLOCKS + KTFS_BLKS_PER_INDIRECT
                       + di * KTFS_BLKS_PER_DINDIRECT
                       + z * KTFS_BLKS_PER_INDIRECT < n}}
        : di \in {d \in 0 .. KTFS_NUM_DINDIRECT_BLOCKS - 1 :
                    KTFS_NUM_DIRECT_DATA_BLOCKS + KTFS_BLKS_PER_INDIRECT
                      + d * KTFS_BLKS_PER_DINDIRECT < n}}
\* the number of blocks a file of size bytes holds
BlocksNeeded(size) ==
    BlockCount(size) + Cardinality(IndexSlots(BlockCount(size)))

\* C16: after IOCTL_SETEND with a value above the file size has returned 0,
\* the size in memory and in the inode on disk is that value, and the call
\* has allocated exactly the blocks that take the file from the blocks of
\* its old size to those of the new one: ceil(n / KTFS_BLKSZ) data blocks
\* and their index blocks, none besides.
C16_GrowAllocatesExactly ==
    (/\ kt_last.op = "setend" /\ kt_last.ret = RetOk(0)
     /\ kt_last.arg > kt_last.size0)
        => LET f == kt_file[kt_last.name]
           IN  /\ f.fi.size = kt_last.arg
               /\ f.inode \in Inodes => InodeAt(KtState, f.inode).size = kt_last.arg
               /\ Cardinality(kt_bitmap) - kt_last.bits0
                    = BlocksNeeded(kt_last.arg) - BlocksNeeded(kt_last.size0)

\* C17: IOCTL_SETEND with a value below the file size returns 0, sets the
\* size to that value and leaves the blocks that were reachable only beyond
\* it free in the bitmap.
C17_ShrinkSucceeds ==
    (kt_last.op = "setend" /\ kt_last.arg < kt_last.size0)
        => /\ kt_last.ret = RetOk(0)
           /\ kt_file[kt_last.name].fi.size = kt_last.arg
           /\ kt_last.bits0 - Cardinality(kt_bitmap)
                = BlocksNeeded(kt_last.size0) - BlocksNeeded(kt_last.arg)

\* C18: after any sequence of calls, each of which has written its blocks
\* to the device, ktfs_mount of the same device yields the superblock, the
\* root directory inode, the directory entries and the inode-use bitmap
\* that were held in memory before, whatever inode holds the root.
C18_RemountYieldsSameState ==
    LET mounted == ktfs_mount(KtState)
    IN  /\ mounted.sb = kt_root
        /\ mounted.root = root_dir_inode
        /\ LiveEntries(mounted) = LiveEntries(KtState)
        /\ mounted.ibm = inode_bitmap

\* the names of the files the directory lists
LiveNames(S) == {e.name : e \in LiveEntries(S)}
\* an inode is free in the in-memory bitmap
FreeInodeExists(S) == \E i \in Inodes : S.ibm[i] = 0
\* the next entry opens a directory block and no data block is free
NeedsBlockAndNoneFree(S) ==
    /\ (S.root.size \div KTFS_DENSZ) % DIR_SIZE = 0
    /\ allocate_open_block(S.bm) = ENODATABLKS

\* C35: create of a name that is not in the directory succeeds when the
\* directory lists fewer than MAX_FILES files, an inode is free and a data
\* block is free if the entry opens a directory block; and create fails
\* with EMFILE only when the files that exist reach MAX_FILES or leave no
\* inode free, whatever was created and deleted before
C35_CreateLimitedByExistingFiles ==
    \A name \in KtNames \ LiveNames(KtState) :
        LET created == KtCreate(KtState, name)
            room == /\ Cardinality(LiveNames(KtState)) < MAX_FILES
                    /\ FreeInodeExists(KtState)
        IN  /\ (room /\ ~NeedsBlockAndNoneFree(KtState))
                  => created.ret = RetOk(0)
            /\ created.ret = RetErr("EMFILE") => ~room

\* the places of the live directory entries and the inode of each
LivePlaces == 0 .. (root_dir_inode.size \div KTFS_DENSZ) - 1
LiveInode(k) == DirCell(KtState, k \div DIR_SIZE, k % DIR_SIZE).num

\* C36: an inode is marked used in the in-memory bitmap iff it is the
\* root directory's inode or the inode of a live directory entry; no two
\* live entries have the same inode and none has the root directory's
C36_InodeBitmapMatchesDirectory ==
    /\ \A i \in Inodes :
           inode_bitmap[i] = 1
             <=> (i = kt_root \/ \E k \in LivePlaces : LiveInode(k) = i)
    /\ \A k1, k2 \in LivePlaces : LiveInode(k1) = LiveInode(k2) => k1 = k2
    /\ \A k \in LivePlaces : LiveInode(k) # kt_root

\* ========================================================= memory claims
\* the page tables of the space of root below its level 2 table
TablePages(tab, root) ==
    LET e2 == tab[root][UVPN2]
    IN  IF ~PTE_VALID(e2) THEN {root}
        ELSE {root, e2.ppn} \cup
             {tab[e2.ppn][j].ppn : j \in {j \in PteIdx :
                                            PTE_VALID(tab[e2.ppn][j])}}
LeafPages(tab, root) == {Walk(tab, root, v).ppn : v \in Mapped(tab, root)}
\* what user mode reads at a page through the space of root
View(tab, byt, root, vma) ==
    LET e == Walk(tab, root, vma)
    IN  IF PTE_VALID(e) THEN <<e.flags, byt[e.ppn]>> ELSE <<{}, 0>>

\* the clone maps the pages of the parent with the same flags and
\* contents, in frames and page tables of its own, and shares the global
\* entries
CloneExact(tab, byt, parent, clone) ==
    /\ \A v \in UVmas : View(tab, byt, clone, v) = View(tab, byt, parent, v)
    /\ LeafPages(tab, clone) \cap LeafPages(tab, parent) = {}
    /\ TablePages(tab, clone) \cap TablePages(tab, parent) = {}
    /\ \A i \in PteIdx \ {UVPN2} : tab[clone][i] = tab[parent][i]

\* C24: a call of clone_active_mspace returns a space that maps exactly
\* the user pages of the active space, with the same flags and contents,
\* in distinct frames and page tables, shares the global entries and
\* leaves what the parent maps unchanged; a later store through one of
\* the two spaces changes nothing that is read through the other
C24_CloneIsExactAndIsolated ==
    [][/\ (cloned' /\ ~cloned) =>
              /\ mem_fault' = "none"
              /\ CloneExact(pt', pg', satp, clone_mtag')
              /\ \A v \in UVmas :
                     View(pt', pg', satp, v) = View(pt, pg, satp, v)
       /\ (cloned /\ n_stores' = n_stores + 1) =>
              LET other == IF satp = MAIN_PT2 THEN clone_mtag ELSE MAIN_PT2
              IN  \A v \in UVmas :
                      View(pt', pg', other, v) = View(pt, pg, other, v)
      ]_vars

\* C27: a call of alloc_phys_pages(cnt) made when no free chunk holds cnt
\* pages returns NULL and leaves the free chunk list as it was
C27_AllocFailsCleanly ==
    [][(n_allocs' = n_allocs + 1 /\ NoFit(free_chunk_list, al_cnt')) =>
           /\ mem_fault' = "none"
           /\ al_ret' = NULLPP
           /\ free_chunk_list' = free_chunk_list
      ]_vars

\* the frames of a chunk or region, and of the free chunk list
RegionFrames(c) == c.base .. (c.base + c.pagecnt - 1)
FreeFrames == UNION {RegionFrames(free_chunk_list[i]) :
                        i \in 1 .. Len(free_chunk_list)}
\* free_phys_page_count (881-891)
free_phys_page_count ==
    LET RECURSIVE Sum(_)
        Sum(k) == IF k = 0 THEN 0
                  ELSE Sum(k - 1) + free_chunk_list[k].pagecnt
    IN  Sum(Len(free_chunk_list))
\* the valid entries of page tables that point at frame f
PteRefsIn(tab, f) == {x \in AllFrames \X PteIdx :
                         PTE_VALID(tab[x[1]][x[2]]) /\ tab[x[1]][x[2]].ppn = f}
PteRefs(f) == PteRefsIn(pt, f)
\* the frames of the pool in use: regions held by the kernel, the root
\* table of the clone, and the tables and pages that page tables point at
HeldFrames == UNION {RegionFrames(b) : b \in mem_held}
TableFrames == {f \in PoolFrames : PteRefs(f) # {} \/ f = clone_mtag}
AllocatedFrames == HeldFrames \cup TableFrames

\* C37: the free chunk list is strictly ordered by ascending address, its
\* chunks overlap neither each other nor a region that is allocated, no
\* region is handed out twice without a free in between, and the free
\* pages plus the allocated pages are the pages of the initial pool, in
\* every state in which the kernel has not stopped
C37_FreeListPartitionsPool ==
    mem_fault = "halt" \/
    /\ \A i, j \in 1 .. Len(free_chunk_list) :
           i < j => /\ free_chunk_list[i].base < free_chunk_list[j].base
                    /\ RegionFrames(free_chunk_list[i])
                          \cap RegionFrames(free_chunk_list[j]) = {}
    /\ FreeFrames \cap AllocatedFrames = {}
    /\ \A b1, b2 \in mem_held :
           b1 # b2 => RegionFrames(b1) \cap RegionFrames(b2) = {}
    /\ HeldFrames \cap TableFrames = {}
    /\ \A f \in PoolFrames :
           /\ Cardinality(PteRefs(f)) <= 1
           /\ f = clone_mtag => PteRefs(f) = {}
    /\ free_phys_page_count + Cardinality(AllocatedFrames) = NPages
    /\ FreeFrames \cup AllocatedFrames = PoolFrames

\* the chunks of a free chunk list that hold frame f
ChunksHolding(list, f) ==
    {i \in 1 .. Len(list) : f \in RegionFrames(list[i])}
\* no valid interior entry of the space of root points at a table without
\* a valid entry
NoEmptySubtable(tab, root) ==
    LET e2 == tab[root][UVPN2]
    IN  PTE_VALID(e2) =>
            /\ ~pt_empty(tab, e2.ppn)
            /\ \A j \in PteIdx :
                   PTE_VALID(tab[e2.ppn][j])
                       => ~pt_empty(tab, tab[e2.ppn][j].ppn)

\* C38: when unmap_and_free_range returns, no page of its range has a
\* valid leaf entry in the active space, every frame that was mapped in
\* the range is on the free chunk list exactly once, and no valid interior
\* entry points at a table without a valid entry, whatever pages or
\* subtables of the range were mapped
C38_UnmapLeavesNothingBehind ==
    [][(n_unmaps' = n_unmaps + 1 /\ mem_fault' = "none") =>
          LET range == {<<k \div PTE_CNT, k % PTE_CNT>> :
                           k \in um_vp' .. (um_vp' + um_cnt' - 1)}
          IN  /\ \A v \in range : ~PTE_VALID(Walk(pt', satp, v))
              /\ \A v \in range :
                     PTE_VALID(Walk(pt, satp, v)) =>
                         Cardinality(ChunksHolding(free_chunk_list',
                                         Walk(pt, satp, v).ppn)) = 1
              /\ NoEmptySubtable(pt', satp)
      ]_vars

\* the frames of a free chunk list
FramesOf(list) == UNION {RegionFrames(list[i]) : i \in 1 .. Len(list)}

\* C39: a call of handle_umode_page_fault that returns gives 1 or 0; it
\* gives 1 only for an address of user memory at which, on return, the
\* frame allocated for the fault is mapped with the R, W and U flags; no
\* frame that the call took from the pool is left without a page table
\* entry that points at it, and a fault at a page that was mapped already
\* leaves the number of free pages as it was
C39_FaultInstallsItsFrame ==
    [][(n_faults' = n_faults + 1 /\ mem_fault' = "none") =>
          /\ pf_ret' \in {0, 1}
          /\ pf_ret' = 1 =>
                 /\ pf_vma' \in UVmas
                 /\ Walk(pt', satp, pf_vma') =
                        leaf_pte(AllocChunk(free_chunk_list, 1).ret,
                                 {"R", "W", "U"})
          /\ \A f \in FramesOf(free_chunk_list) \ FramesOf(free_chunk_list') :
                 PteRefsIn(pt', f) # {}
          /\ (pf_vma' \in Mapped(pt, satp)) =>
                 FramesOf(free_chunk_list') = FramesOf(free_chunk_list)
      ]_vars

\* ========================================================= timer claims
\* the sleep list in ascending order of wake time, each alarm once
SleepListSorted ==
    \A i, j \in 1 .. Len(sleep_list) :
        i < j => /\ twake[sleep_list[i]] <= twake[sleep_list[j]]
                 /\ sleep_list[i] # sleep_list[j]

\* C40: the sleep list is in ascending order of wake time and holds each
\* alarm at most once in every state; a thread that sleeps in alarm_sleep
\* is made ready only by handle_timer_interrupt, at a time not before its
\* wake time; of two sleepers the one with the later wake time is not made
\* ready while the other still sleeps; and a sleeper whose wake time the
\* time counter has passed is eventually made ready
C40_SleepersWakeInOrder ==
    /\ [](SleepListSorted)
    /\ [][\A t \in Sleepers :
             (al_state[t] = "sleep" /\ al_state'[t] # "sleep") =>
                 /\ al_state'[t] = "ready"
                 /\ t_op' = "isr"
                 /\ twake[t] <= t_now]_vars
    /\ [][\A a, b \in Sleepers :
             (/\ al_state[a] = "sleep" /\ al_state[b] = "sleep"
              /\ twake[a] < twake[b] /\ al_state'[b] = "ready")
                 => al_state'[a] = "ready"]_vars
    /\ \A t \in Sleepers :
           (al_state[t] = "sleep" /\ twake[t] < t_now)
               ~> (al_state[t] # "sleep")
\* the sleeper B was made ready by the timer interrupt while A, whose wake
\* time is later, sleeps on, with the preemption alarm on the list
C40_Witness ==
    /\ t_op = "isr" /\ timer_initialized = 1
    /\ al_state["B"] = "ready" /\ al_state["A"] = "sleep"
    /\ twake["B"] < twake["A"] /\ twake["B"] < t_now
    /\ \E i, j \in 1 .. Len(sleep_list) :
           sleep_list[i] = "A" /\ sleep_list[j] = interruptAlrm

\* ================================================ seekable adapter claims
\* C28: a read or write on the adapter whose size is not a multiple of the
\* block size fails with an error, and one whose size is not a positive
\* multiple moves no byte and leaves pos, end and the device as they were
C28_PartialBlockRequestFails ==
    [][(sk_op' \in {"read", "write"} /\ sk_req' % VIOBLK_BLKSZ # 0) =>
           /\ sk_ret'.err # ""
           /\ sk_moved' = 0
           /\ sio_pos' = sio_pos /\ sio_end' = sio_end
           /\ sk_disk' = sk_disk
      ]_vars

\* ==================================================== system call claims
\* the descriptor names no open endpoint: negative, beyond the table, or
\* an empty slot
BadFd(fd) == fd \notin SysSlots \/ iotab[fd] = NoIo

\* C29: read, write, ioctl and close on a descriptor that names no open
\* endpoint return -EBADFD, do not stop the kernel and leave the I/O table
\* and the reference counts as they were
C29_BadDescriptorIsRejected ==
    [][(sys_op' \in {"read", "write", "ioctl", "close"} /\ BadFd(sys_fd')) =>
           /\ sys_halt' = "run"
           /\ sys_ret' = RetErr("EBADFD")
           /\ iotab' = iotab /\ sys_refcnt' = sys_refcnt
      ]_vars

\* the reference counts after one more reference to e and, if slot held
\* an endpoint, one ioclose of it
DupCounts(e, held) ==
    [d \in SysDevices |->
        sys_refcnt[d] + (IF d = e THEN 1 ELSE 0)
                      - (IF d = held THEN 1 ELSE 0)]

\* C30: iodup either fails with a negative code and changes nothing, or
\* oldfd is open and the target slot (newfd, or the first free slot when
\* newfd is negative) now holds one more counted reference to its
\* endpoint, a reference that the slot held before having been closed
C30_DupInstallsOrFails ==
    [][sys_op' = "iodup" =>
           /\ sys_halt' = "run"
           /\ \/ /\ sys_ret'.err # ""
                 /\ iotab' = iotab /\ sys_refcnt' = sys_refcnt
              \/ /\ sys_ret'.err = ""
                 /\ ~BadFd(sys_fd')
                 /\ LET slot == sys_ret'.val
                    IN  /\ slot \in SysSlots
                        /\ slot = IF sys_new' >= 0 THEN sys_new'
                                  ELSE FirstFreeSlot
                        /\ iotab' = [iotab EXCEPT ![slot] = iotab[sys_fd']]
                        /\ sys_refcnt' = DupCounts(iotab[sys_fd'], iotab[slot])
      ]_vars

====
